---- MODULE Spec2Model ----
(***************************************************************************)
(* Verification model of the site-selection dashboard                      *)
(* (src/site_selector_bangalore.py): the Chaikin ring smoothing            *)
(* (chaikin_smooth) and the candidate scoring pipeline                     *)
(* (compute_candidates).                                                   *)
(*                                                                         *)
(* Arithmetic.  Ring coordinates are dyadic rationals; a coordinate c is   *)
(* stored as the integer c * Den with Den = 4^SMOOTH_ITERS, so that the    *)
(* 0.75/0.25 interpolation of up to SMOOTH_ITERS passes is exact           *)
(* integer arithmetic (every division by 4 below is exact).                *)
(***************************************************************************)
EXTENDS Integers, Sequences, FiniteSets, TLC

\* ---------------------------------------------------------------- bounds
\* largest input coordinate of a ring vertex (inputs are 0..MaxCoord)
MaxCoord == 1
\* longest coordinate list handed to _cut_ring
MaxRingLen == 4
\* most interior rings of an input polygon
MaxInteriors == 2
\* most parts of an input MultiPolygon
MaxParts == 2
\* most cells of the evaluation grid Z
MaxCells == 9
\* most points of interest fetched for the place
MaxPois == 5

\* ------------------------------------------------------ program constants
SMOOTH_ITERS == 3

Den == 4 ^ SMOOTH_ITERS

VARIABLES
    \* --- _cut_ring applied pass by pass (lines 41-42 / 46-47)
    coords0,      \* the coordinate list before the first pass
    coords,       \* the coordinate list after `passes` passes
    passes,       \* number of passes applied so far
    \* --- chaikin_smooth (lines 23-63)
    geom,         \* the geometry passed in
    iterations,   \* the iterations argument
    spc,          \* position in chaikin_smooth
    part_i,       \* index of the part (of geom.geoms) being smoothed
    ext_coords,   \* smooth_polygon's ext_coords
    interiors,    \* smooth_polygon's interiors
    parts,        \* chaikin_smooth's parts (the polygon itself for a Polygon)
    failed,       \* per finished part: did Polygon(ext_coords, interiors) raise
    sresult,      \* the returned geometry
    \* --- compute_candidates, peak detection (lines 198-203)
    Z,            \* the density grid, Z[yi][xi], in units of 1e-9
    kpc,          \* position: "grid" before line 200, "peaks" after line 203
    local_max,    \* the boolean grid of line 202
    peak_idx,     \* zip(ys_idx, xs_idx) of line 203, as <<yi, xi>> pairs
    \* --- compute_candidates from line 179 on
    area,         \* area_gdf: the rectangle [minx, miny, maxx, maxy]
    grid_size,    \* argument
    competitor_radius,  \* argument
    top_n,        \* argument
    pois_all,     \* the centroids of all fetched points (pois at line 179)
    pois,         \* pois (reassigned at line 181)
    kde_fit,      \* the coordinates kde.fit was called with (line 188)
    xv,           \* grid abscissae (line 191)
    yv,           \* grid ordinates (line 192)
    candidates,   \* the list of candidate dicts
    features,     \* the features of the returned FeatureCollection
    \* --- compute_candidates up to line 177
    selected_categories,  \* argument: [given, cats], given = FALSE for None
    bandwidth,    \* argument
    tag_list,     \* the categories whose tags are fetched (line 157-161)
    tag_i,        \* index of the next tag of `for t in tag_list`
    poi_frames,   \* the non-empty frames fetched so far
    failures,     \* the stages at which an exception has been raised
    \* --- the page script (lines 244-582), one session
    query,        \* the URL query: lat, lon, r, state, district
    selected_state,   \* value of the state selectbox
    state_widget,     \* the index the state selectbox was created with
    district_choice,  \* value of the district selectbox / text input
    district_widget,  \* kind, options and default the district widget was created with
    sliders,      \* kde_bandwidth, grid_size, competitor_radius
    chosen,       \* value of the category multiselect
    candidates_geojson,  \* st.session_state.candidates_geojson (present or not)
    stored_place, \* the place the stored list was computed for
    event,        \* what the user did last
    pressed,      \* did the latest page run see the button pressed
    table,        \* the candidate table (and CSV) of the latest page run
    map_candidates,   \* candidatesGeo of the latest page run
    area_query,   \* area_query of the latest page run
    \* --- streamlit_app.py, one run of the script
    uploaded_shp, \* the uploaded study area file: none, or what reading it gives
    use_bbox,     \* the checkbox of line 19
    bbox_input,   \* the text of line 22
    cand_upload,  \* the uploaded candidate CSV: none, or what reading it gives
    grid_res_m,   \* grid resolution, in map units
    app_top_n,    \* top_n of line 27
    w_sliders,    \* <<w_pop, w_comp, w_access, w_land>>, in hundredths
    apc,          \* position in the script
    study_area,   \* study_area
    app_candidates,   \* candidates (line 111-126)
    osm_pois,     \* pois of line 150, in map units
    indicators,   \* indicators (line 189)
    weights,      \* weights after line 206: the numerators and their denominator
    df,           \* df after line 231
    shown_table,  \* the rows of the table of line 234
    shown_map,    \* the rows drawn on the map (lines 242-246)
    \* --- load_and_smooth_area (lines 66-82)
    area_name,    \* argument, a string as the list of its characters
    smooth_iters, \* argument
    lpc,          \* position in load_and_smooth_area
    geocode_q,    \* q, the query handed to ox.geocode_to_gdf
    gdf,          \* the features the geocoder answered with
    gj,           \* gj["features"]
    feat_i,       \* index of the feature the loop is at
    raised_at,    \* the indices of the features whose smoothing raised
    kept_parts,   \* <<i, j>>: Polygon(...) raised for part j of feature i
    area_result   \* what the call returns

cutVars == <<coords0, coords, passes>>
smoothVars == <<geom, iterations, spc, part_i, ext_coords, interiors, parts, failed,
                sresult>>
peakVars == <<Z, kpc, local_max, peak_idx>>
candVars == <<area, grid_size, competitor_radius, top_n, pois_all, pois, kde_fit, xv, yv,
              candidates, features>>
pipeVars == <<selected_categories, bandwidth, tag_list, tag_i, poi_frames, failures>>
uiVars == <<query, selected_state, state_widget, district_choice, district_widget, sliders,
            chosen, candidates_geojson, stored_place, event, pressed, table,
            map_candidates, area_query>>
appVars == <<uploaded_shp, use_bbox, bbox_input, cand_upload, grid_res_m, app_top_n,
             w_sliders, apc, study_area, app_candidates, osm_pois, indicators, weights, df,
             shown_table, shown_map>>
areaVars == <<area_name, smooth_iters, lpc, geocode_q, gdf, gj, feat_i, raised_at,
              kept_parts, area_result>>
extVars == <<uiVars, appVars, areaVars>>
vars == <<cutVars, smoothVars, peakVars, candVars, pipeVars, extVars>>

\* the page script is not running
UiIdle ==
    /\ query = [lat |-> "", lon |-> "", r |-> "10", state |-> "", district |-> ""]
    /\ selected_state = ""
    /\ state_widget = 0
    /\ district_choice = ""
    /\ district_widget = [kind |-> "none", opts |-> <<>>, index |-> 0, value |-> ""]
    /\ sliders = [kde_bandwidth |-> 0, grid_size |-> 0, competitor_radius |-> 0]
    /\ chosen = <<>>
    /\ candidates_geojson = [present |-> FALSE, features |-> <<>>]
    /\ stored_place = <<>>
    /\ event = "none"
    /\ pressed = FALSE
    /\ table = [shown |-> FALSE, rows |-> <<>>]
    /\ map_candidates = <<>>
    /\ area_query = <<>>

\* what the script of streamlit_app.py has not computed yet
NoFrame == [columns |-> {}, rows |-> <<>>]
NoArea == [source |-> "None", minx |-> 0, miny |-> 0, maxx |-> 0, maxy |-> 0]

AppOutputsIdle ==
    /\ study_area = NoArea
    /\ app_candidates = NoFrame
    /\ osm_pois = <<>>
    /\ indicators = NoFrame
    /\ weights = [num |-> <<>>, den |-> 0]
    /\ df = NoFrame
    /\ shown_table = <<>>
    /\ shown_map = <<>>

AppInputsIdle ==
    /\ uploaded_shp = [kind |-> "none", area |-> NoArea]
    /\ use_bbox = FALSE
    /\ bbox_input = ""
    /\ cand_upload = [kind |-> "none", frame |-> NoFrame]
    /\ grid_res_m = 0
    /\ app_top_n = 0

\* streamlit_app.py is not running
AppIdle ==
    /\ AppInputsIdle
    /\ w_sliders = <<0, 0, 0, 0>>
    /\ apc = "idle"
    /\ AppOutputsIdle

\* load_and_smooth_area is not running
AreaIdle ==
    /\ area_name = <<>>
    /\ smooth_iters = 0
    /\ lpc = "idle"
    /\ geocode_q = <<>>
    /\ gdf = <<>>
    /\ gj = <<>>
    /\ feat_i = 0
    /\ raised_at = {}
    /\ kept_parts = {}
    /\ area_result = [type |-> "None", features |-> <<>>]

ExtIdle ==
    /\ UiIdle
    /\ AppIdle
    /\ AreaIdle

\* ------------------------------------------------------------- _cut_ring
Pt(x, y) == <<x, y>>

\* Q = 0.75*p0 + 0.25*p1 (line 32)
CutQ(p0, p1) == Pt((3 * p0[1] + p1[1]) \div 4, (3 * p0[2] + p1[2]) \div 4)

\* R = 0.25*p0 + 0.75*p1 (line 33)
CutR(p0, p1) == Pt((p0[1] + 3 * p1[1]) \div 4, (p0[2] + 3 * p1[2]) \div 4)

\* the loop `for i in range(n - 1)` of lines 29-35; i is the Python index
RECURSIVE CutLoop(_, _, _)
CutLoop(cs, i, new_coords) ==
    LET n == Len(cs) IN
    IF i >= n - 1 THEN new_coords
    ELSE LET p0 == cs[i + 1]
             p1 == cs[((i + 1) % (n - 1)) + 1]
         IN  CutLoop(cs, i + 1, Append(Append(new_coords, CutQ(p0, p1)), CutR(p0, p1)))

\* mutant: the next vertex is taken without the wrap-around modulo
RECURSIVE CutLoopNoWrap(_, _, _)
CutLoopNoWrap(cs, i, new_coords) ==
    LET n == Len(cs) IN
    IF i >= n - 1 THEN new_coords
    ELSE LET p0 == cs[i + 1]
             p1 == cs[i + 2]
         IN  CutLoopNoWrap(cs, i + 1, Append(Append(new_coords, CutQ(p0, p1)), CutR(p0, p1)))

_cut_ring_NoWrap(cs) ==
    IF Len(cs) < 3 THEN cs
    ELSE LET new_coords == CutLoopNoWrap(cs, 0, <<>>)
         IN  Append(new_coords, new_coords[1])

\* mutant: the closing point is not appended
_cut_ring_NoClose(cs) ==
    IF Len(cs) < 3 THEN cs
    ELSE CutLoop(cs, 0, <<>>)

\* _cut_ring (lines 24-37)
_cut_ring(cs) ==
    IF Len(cs) < 3 THEN cs
    ELSE LET new_coords == CutLoop(cs, 0, <<>>)
         IN  Append(new_coords, new_coords[1])

\* ------------------------------------------------ specification SpecCut
\* _cut_ring as a pure function: any coordinate list, closed or not.
Coord == {Den * k : k \in 0..MaxCoord}
Points == {Pt(x, y) : x \in Coord, y \in Coord}
CoordLists == UNION {[1..n -> Points] : n \in 0..MaxRingLen}

NoGeom == [kind |-> "None", polys |-> <<>>]

SmoothIdle ==
    /\ geom = NoGeom
    /\ iterations = 0
    /\ spc = "idle"
    /\ part_i = 0
    /\ ext_coords = <<>>
    /\ interiors = <<>>
    /\ parts = <<>>
    /\ failed = <<>>
    /\ sresult = NoGeom

PeaksIdle ==
    /\ Z = <<>>
    /\ kpc = "idle"
    /\ local_max = <<>>
    /\ peak_idx = <<>>

CandIdle ==
    /\ area = [minx |-> 0, miny |-> 0, maxx |-> 0, maxy |-> 0]
    /\ grid_size = 0
    /\ competitor_radius = 0
    /\ top_n = 0
    /\ pois_all = <<>>
    /\ pois = <<>>
    /\ kde_fit = <<>>
    /\ xv = <<>>
    /\ yv = <<>>
    /\ candidates = <<>>
    /\ features = <<>>

PipeIdle ==
    /\ selected_categories = [given |-> FALSE, cats |-> <<>>]
    /\ bandwidth = 1
    /\ tag_list = <<>>
    /\ tag_i = 0
    /\ poi_frames = <<>>
    /\ failures = {}

InitCut ==
    /\ coords0 \in CoordLists
    /\ coords = coords0
    /\ passes = 0
    /\ SmoothIdle
    /\ PeaksIdle
    /\ CandIdle
    /\ PipeIdle
    /\ ExtIdle

\* one pass of the loop `for _ in range(iterations)` (lines 41-42)
CutPass ==
    /\ passes < SMOOTH_ITERS
    /\ coords' = _cut_ring(coords)
    /\ passes' = passes + 1
    /\ UNCHANGED <<coords0, smoothVars, peakVars, candVars, pipeVars, extVars>>

NextCut == CutPass

SpecCut == InitCut /\ [][NextCut]_vars

\* ---------------------------------------------- specification SpecSmooth
\* chaikin_smooth on a geometry.  A geometry is [kind, polys]; a polygon is
\* [exterior, interiors] with each ring the list of its coordinates, closed
\* as shapely stores it (4 coordinates or more, first = last) or empty.

\* `for _ in range(iterations): cs = _cut_ring(cs)` (lines 41-42, 46-47)
\* mutant: the loop runs over range(1, iterations)
RECURSIVE IterCutFromOne(_, _)
IterCutFromOne(cs, k) == IF k <= 1 THEN cs ELSE IterCutFromOne(_cut_ring(cs), k - 1)

RECURSIVE IterCut(_, _)
IterCut(cs, k) == IF k = 0 THEN cs ELSE IterCut(_cut_ring(cs), k - 1)

Ring(pts) == [i \in 1..Len(pts) |-> Pt(Den * pts[i][1], Den * pts[i][2])]

ShellRing == Ring(<< <<0, 0>>, <<4, 0>>, <<4, 4>>, <<0, 4>>, <<0, 0>> >>)
HoleRings == { Ring(<< <<1, 1>>, <<2, 1>>, <<1, 2>>, <<1, 1>> >>),
               Ring(<< <<2, 2>>, <<3, 2>>, <<3, 3>>, <<2, 3>>, <<2, 2>> >>) }

Poly(ext, ints) == [exterior |-> ext, interiors |-> ints]
EmptyPolygon == Poly(<<>>, <<>>)
HoleLists == UNION {[1..n -> HoleRings] : n \in 0..MaxInteriors}
HoledPolygons == {Poly(ShellRing, h) : h \in HoleLists}

Geometries ==
    {[kind |-> "None", polys |-> <<>>], [kind |-> "Point", polys |-> <<>>]}
    \cup {[kind |-> "Polygon", polys |-> <<p>>] : p \in HoledPolygons \cup {EmptyPolygon}}
    \cup {[kind |-> "MultiPolygon", polys |-> ps] :
            ps \in UNION {[1..n -> HoledPolygons] : n \in 0..MaxParts}}

InitSmooth ==
    /\ geom \in Geometries
    /\ iterations \in 0..SMOOTH_ITERS
    /\ spc = "start"
    /\ part_i = 0
    /\ ext_coords = <<>>
    /\ interiors = <<>>
    /\ parts = <<>>
    /\ failed = <<>>
    /\ sresult = NoGeom
    /\ coords0 = <<>>
    /\ coords = <<>>
    /\ passes = 0
    /\ PeaksIdle
    /\ CandIdle
    /\ PipeIdle
    /\ ExtIdle

\* lines 54-55 and 63: None and every non-polygonal geometry are returned as is
ReturnAsIs ==
    /\ spc = "start"
    /\ geom.kind \notin {"Polygon", "MultiPolygon"}
    /\ sresult' = geom
    /\ spc' = "done"
    /\ UNCHANGED <<geom, iterations, part_i, ext_coords, interiors, parts, failed, cutVars, peakVars, candVars, pipeVars, extVars>>

\* lines 56-57 and 58-60: enter smooth_polygon for the (first) polygon
EnterPolygon ==
    /\ spc = "start"
    /\ geom.kind \in {"Polygon", "MultiPolygon"}
    /\ Len(geom.polys) > 0
    /\ part_i' = 1
    /\ spc' = "exterior"
    /\ UNCHANGED <<geom, iterations, ext_coords, interiors, parts, failed, sresult, cutVars, peakVars, candVars, pipeVars, extVars>>

\* lines 58-62 with no part: MultiPolygon([]) of the empty parts list
ReturnEmptyMulti ==
    /\ spc = "start"
    /\ geom.kind = "MultiPolygon"
    /\ Len(geom.polys) = 0
    /\ sresult' = [kind |-> "MultiPolygon", polys |-> parts]
    /\ spc' = "done"
    /\ UNCHANGED <<geom, iterations, part_i, ext_coords, interiors, parts, failed, cutVars, peakVars, candVars, pipeVars, extVars>>

\* lines 40-43: the exterior ring, then interiors = []
SmoothExterior ==
    /\ spc = "exterior"
    /\ ext_coords' = IterCut(geom.polys[part_i].exterior, iterations)
    /\ interiors' = <<>>
    /\ spc' = "interiors"
    /\ UNCHANGED <<geom, iterations, part_i, parts, failed, sresult, cutVars, peakVars, candVars, pipeVars, extVars>>

\* mutant: every turn of the loop smooths the first interior ring again
SmoothInteriorFirst ==
    /\ spc = "interiors"
    /\ Len(interiors) < Len(geom.polys[part_i].interiors)
    /\ LET i_coords == geom.polys[part_i].interiors[1]
       IN  interiors' = Append(interiors, IterCut(i_coords, iterations))
    /\ UNCHANGED <<geom, iterations, spc, part_i, ext_coords, parts, failed, sresult, cutVars, peakVars, candVars, pipeVars, extVars>>

\* lines 44-48: one turn of `for interior in poly.interiors`
SmoothInterior ==
    /\ spc = "interiors"
    /\ Len(interiors) < Len(geom.polys[part_i].interiors)
    /\ LET i_coords == geom.polys[part_i].interiors[Len(interiors) + 1]
       IN  interiors' = Append(interiors, IterCut(i_coords, iterations))
    /\ UNCHANGED <<geom, iterations, spc, part_i, ext_coords, parts, failed, sresult, cutVars, peakVars, candVars, pipeVars, extVars>>

\* lines 57 and 60-62: what chaikin_smooth does with smooth_polygon's value p
AfterPolygon(p, raised) ==
    /\ parts' = Append(parts, p)
    /\ failed' = Append(failed, raised)
    /\ IF geom.kind = "MultiPolygon" /\ part_i < Len(geom.polys)
       THEN /\ part_i' = part_i + 1
            /\ spc' = "exterior"
            /\ UNCHANGED sresult
       ELSE /\ sresult' = [kind |-> geom.kind, polys |-> Append(parts, p)]
            /\ spc' = "done"
            /\ UNCHANGED part_i
    /\ UNCHANGED <<geom, iterations, ext_coords, interiors, cutVars, peakVars, candVars, pipeVars, extVars>>

\* lines 49-50: Polygon(ext_coords, interiors) is built
BuildPolygon ==
    /\ spc = "interiors"
    /\ Len(interiors) = Len(geom.polys[part_i].interiors)
    /\ AfterPolygon(Poly(ext_coords, interiors), FALSE)

\* mutant: the except branch returns the polygon without its interior rings
BuildFailsDropsHoles ==
    /\ spc = "interiors"
    /\ Len(interiors) = Len(geom.polys[part_i].interiors)
    /\ AfterPolygon(Poly(geom.polys[part_i].exterior, <<>>), TRUE)

\* lines 49-52: Polygon(ext_coords, interiors) raises; the original is returned
BuildFails ==
    /\ spc = "interiors"
    /\ Len(interiors) = Len(geom.polys[part_i].interiors)
    /\ AfterPolygon(geom.polys[part_i], TRUE)

NextSmooth ==
    \/ ReturnAsIs
    \/ EnterPolygon
    \/ ReturnEmptyMulti
    \/ SmoothExterior
    \/ SmoothInterior
    \/ BuildPolygon
    \/ BuildFails

SpecSmooth == InitSmooth /\ [][NextSmooth]_vars


\* ----------------------------------------------- specification SpecPeaks
\* Peak detection of compute_candidates (lines 198-203) as a function of the
\* density grid Z = zs.reshape(len(yv), len(xv)).  Densities are whole
\* multiples of 1e-9; indices are the Python indices plus one.

Densities == {0, 1, 2}
Shapes == {<<ny, nx>> \in (1..MaxCells) \X (1..MaxCells) : ny * nx <= MaxCells}
Grids == UNION {[1..sh[1] -> [1..sh[2] -> Densities]] : sh \in Shapes}

Rows(G) == Len(G)
Cols(G) == Len(G[1])

MaxOf(S) == CHOOSE m \in S : \A v \in S : v <= m

\* scipy's default boundary mode 'reflect' (d c b a | a b c d | d c b a):
\* the index one step off the array is the edge index itself
Reflect(i, n) == IF i < 1 THEN 1 ELSE IF i > n THEN n ELSE i

\* mutant: only the four edge-adjacent cells and the cell itself are compared
MaximumFilterCross(G) ==
    [y \in 1..Rows(G) |-> [x \in 1..Cols(G) |->
        MaxOf({G[Reflect(y + dy, Rows(G))][Reflect(x + dx, Cols(G))] :
                 <<dy, dx>> \in {<<0, 0>>, <<1, 0>>, <<0 - 1, 0>>, <<0, 1>>, <<0, 0 - 1>>}})]]

\* ndimage.maximum_filter(Z, size=3) (line 201)
MaximumFilter(G) ==
    [y \in 1..Rows(G) |-> [x \in 1..Cols(G) |->
        MaxOf({G[Reflect(y + dy, Rows(G))][Reflect(x + dx, Cols(G))] :
                 dy \in {0 - 1, 0, 1}, dx \in {0 - 1, 0, 1}})]]

\* Z.ravel(): the cells in row-major order
RECURSIVE Ravel(_, _)
Ravel(G, y) == IF y > Rows(G) THEN <<>> ELSE G[y] \o Ravel(G, y + 1)

\* ascending sort by insertion
RECURSIVE Insert(_, _)
Insert(v, sq) ==
    IF sq = <<>> THEN <<v>>
    ELSE IF v <= Head(sq) THEN <<v>> \o sq
    ELSE <<Head(sq)>> \o Insert(v, Tail(sq))

RECURSIVE SortAsc(_)
SortAsc(sq) == IF sq = <<>> THEN <<>> ELSE Insert(Head(sq), SortAsc(Tail(sq)))

\* np.percentile(Z, 75), times 4: linear interpolation between the order
\* statistics around the virtual index 0.75 * (N - 1)
Percentile75x4(G) ==
    LET a == SortAsc(Ravel(G, 1))
        N == Len(a)
        lo == (3 * (N - 1)) \div 4
        fr == (3 * (N - 1)) % 4
        hi == IF lo + 1 <= N - 1 THEN lo + 1 ELSE lo
    IN  4 * a[lo + 1] + fr * (a[hi + 1] - a[lo + 1])

\* mutant: cells equal to the 75th percentile qualify too
LocalMaxAtOrAbove(G) ==
    LET neighborhood == MaximumFilter(G)
        p75x4 == Percentile75x4(G)
    IN  [y \in 1..Rows(G) |-> [x \in 1..Cols(G) |->
            (G[y][x] = neighborhood[y][x]) /\ (4 * G[y][x] >= p75x4)]]

\* local_max = (Z == neighborhood) & (Z > np.percentile(Z, 75)) (lines 201-202)
LocalMax(G) ==
    LET neighborhood == MaximumFilter(G)
        p75x4 == Percentile75x4(G)
    IN  [y \in 1..Rows(G) |-> [x \in 1..Cols(G) |->
            (G[y][x] = neighborhood[y][x]) /\ (4 * G[y][x] > p75x4)]]

\* np.where(local_max) (line 203): the true cells in row-major order
RECURSIVE Where(_, _, _)
Where(M, y, x) ==
    IF y > Len(M) THEN <<>>
    ELSE IF x > Len(M[y]) THEN Where(M, y + 1, 1)
    ELSE (IF M[y][x] THEN << <<y, x>> >> ELSE <<>>) \o Where(M, y, x + 1)

InitPeaks ==
    /\ Z \in Grids
    /\ kpc = "grid"
    /\ local_max = <<>>
    /\ peak_idx = <<>>
    /\ coords0 = <<>>
    /\ coords = <<>>
    /\ passes = 0
    /\ SmoothIdle
    /\ CandIdle
    /\ PipeIdle
    /\ ExtIdle

\* lines 200-203
FindPeaks ==
    /\ kpc = "grid"
    /\ local_max' = LocalMax(Z)
    /\ peak_idx' = Where(local_max', 1, 1)
    /\ kpc' = "peaks"
    /\ UNCHANGED <<Z, cutVars, smoothVars, candVars, pipeVars, extVars>>

NextPeaks == FindPeaks

SpecPeaks == InitPeaks /\ [][NextPeaks]_vars


\* ------------------------------------------------ specification SpecCand
\* compute_candidates from line 179 on, over concrete points.  Lengths are
\* whole numbers of one map unit of the projected CRS; points of interest,
\* already reduced to their centroids (line 179), sit on that lattice.
\* Densities are whole multiples of 1e-9, and a number written
\* [whole, eps] stands for whole + eps * 1e-9, so that the 1e-9 added to the
\* denominators of lines 220-221 is kept exactly.

EpsInv == 1000000000

Sites == << <<0, 0>>, <<1, 0>>, <<3, 0>>, <<0, 3>>, <<3, 3>>, <<4, 1>>, <<5, 0>> >>
SiteLists ==
    UNION {{f \in [1..n -> 1..Len(Sites)] : \A i \in 1..(n - 1) : f[i] <= f[i + 1]} :
             n \in 0..MaxPois}
PoiLists == {[i \in 1..Len(f) |-> Sites[f[i]]] : f \in SiteLists}

Areas == {[minx |-> 0 - 1, miny |-> 0 - 1, maxx |-> 4, maxy |-> 4]}
GridSizes == {0 - 1, 1, 2}
Radii == {1, 2}
TopNs == {1, 2, 12}

Dist2(p, q) == (p[1] - q[1]) * (p[1] - q[1]) + (p[2] - q[2]) * (p[2] - q[2])

\* p.within(area_poly) (line 181): strictly inside the rectangle
WithinArea(p, a) == a.minx < p[1] /\ p[1] < a.maxx /\ a.miny < p[2] /\ p[2] < a.maxy

\* p.within(pt.buffer(r)) (lines 210-212): inside the buffer polygon, whose
\* vertices lie on the circle of radius r; for lattice points and the radii
\* used here that is the open disc
WithinBuffer(p, centre, r) == Dist2(p, centre) < r * r

\* np.arange(lo, hi, step) for step # 0 (lines 191-192)
RECURSIVE Arange(_, _, _)
Arange(lo, hi, step) ==
    IF (step > 0 /\ lo < hi) \/ (step < 0 /\ lo > hi)
    THEN <<lo>> \o Arange(lo + step, hi, step)
    ELSE <<>>

RECURSIVE SumSeq(_)
SumSeq(sq) == IF sq = <<>> THEN 0 ELSE Head(sq) + SumSeq(Tail(sq))

\* the Gaussian kernel exp(-d2 / (2 h^2)) of KernelDensity at the bandwidth
\* h = 1 map unit, in hundredths, rounded down
Kernel(d2) ==
    CASE d2 = 0 -> 100
      [] d2 = 1 -> 60
      [] d2 = 2 -> 36
      [] d2 = 4 -> 13
      [] d2 = 5 -> 8
      [] d2 \in {8, 9} -> 1
      [] OTHER -> 0

\* np.exp(kde.score_samples(g)) (line 197): the mean of the kernel over the
\* fitted points, in whole units of 1e-9
KdeDensity(g, fit) == SumSeq([i \in 1..Len(fit) |-> Kernel(Dist2(g, fit[i]))]) \div Len(fit)

MinOf(S) == CHOOSE m \in S : \A v \in S : m <= v

InitCand ==
    /\ area \in Areas
    /\ grid_size \in GridSizes
    /\ competitor_radius \in Radii
    /\ top_n \in TopNs
    /\ pois_all \in PoiLists
    /\ pois = pois_all
    /\ kde_fit = <<>>
    /\ xv = <<>>
    /\ yv = <<>>
    /\ candidates = <<>>
    /\ features = <<>>
    /\ Z = <<>>
    /\ kpc = "filter"
    /\ local_max = <<>>
    /\ peak_idx = <<>>
    /\ coords0 = <<>>
    /\ coords = <<>>
    /\ passes = 0
    /\ SmoothIdle
    /\ PipeIdle
    /\ ExtIdle

\* return {"type":"FeatureCollection","features":[]}
ReturnEmpty ==
    /\ features' = <<>>
    /\ kpc' = "done"

\* line 181
FilterPois ==
    /\ kpc = "filter"
    /\ pois' = SelectSeq(pois, LAMBDA p : WithinArea(p, area))
    /\ kpc' = "filtered"
    /\ UNCHANGED <<Z, local_max, peak_idx, area, grid_size, competitor_radius, top_n,
                   pois_all, kde_fit, xv, yv, candidates, features, cutVars, smoothVars, pipeVars, extVars>>

\* mutant: with one or two points inside the area the call goes on
TooFewPoisGoesOn ==
    /\ kpc = "filtered"
    /\ Len(pois) \in {1, 2}
    /\ bandwidth > 0
    /\ grid_size # 0
    /\ kde_fit' = pois
    /\ xv' = Arange(area.minx, area.maxx, grid_size)
    /\ yv' = Arange(area.miny, area.maxy, grid_size)
    /\ kpc' = "axes"
    /\ UNCHANGED <<Z, local_max, peak_idx, area, grid_size, competitor_radius, top_n,
                   pois_all, pois, candidates, features, cutVars, smoothVars, pipeVars, extVars>>

\* lines 183-184
TooFewPois ==
    /\ kpc = "filtered"
    /\ Len(pois) < 3
    /\ ReturnEmpty
    /\ UNCHANGED <<Z, local_max, peak_idx, area, grid_size, competitor_radius, top_n,
                   pois_all, pois, kde_fit, xv, yv, candidates, cutVars, smoothVars, pipeVars, extVars>>

\* lines 186-192
FitAndGrid ==
    /\ kpc = "filtered"
    /\ Len(pois) >= 3
    /\ bandwidth > 0
    /\ grid_size # 0
    /\ kde_fit' = pois
    /\ xv' = Arange(area.minx, area.maxx, grid_size)
    /\ yv' = Arange(area.miny, area.maxy, grid_size)
    /\ kpc' = "axes"
    /\ UNCHANGED <<Z, local_max, peak_idx, area, grid_size, competitor_radius, top_n,
                   pois_all, pois, candidates, features, cutVars, smoothVars, pipeVars, extVars>>

\* lines 193-194
GridEmpty ==
    /\ kpc = "axes"
    /\ Len(xv) = 0 \/ Len(yv) = 0
    /\ ReturnEmpty
    /\ UNCHANGED <<Z, local_max, peak_idx, area, grid_size, competitor_radius, top_n,
                   pois_all, pois, kde_fit, xv, yv, candidates, cutVars, smoothVars, pipeVars, extVars>>

\* lines 195-198
EvalDensity ==
    /\ kpc = "axes"
    /\ Len(xv) > 0 /\ Len(yv) > 0
    /\ Z' = [y \in 1..Len(yv) |-> [x \in 1..Len(xv) |-> KdeDensity(<<xv[x], yv[y]>>, kde_fit)]]
    /\ kpc' = "grid"
    /\ UNCHANGED <<local_max, peak_idx, area, grid_size, competitor_radius, top_n,
                   pois_all, pois, kde_fit, xv, yv, candidates, features, cutVars, smoothVars, pipeVars, extVars>>

\* mutant: the competitors are counted among all fetched points
CandidateOfAll(k) ==
    LET yi == peak_idx[k][1]
        xi == peak_idx[k][2]
        gx == xv[xi]
        gy == yv[yi]
    IN  [x |-> gx, y |-> gy, score |-> Z[yi][xi],
         competitors |-> Len(SelectSeq(pois_all,
                            LAMBDA p : WithinBuffer(p, <<gx, gy>>, competitor_radius)))]

\* lines 207-213: the candidate of the k-th peak
Candidate(k) ==
    LET yi == peak_idx[k][1]
        xi == peak_idx[k][2]
        gx == xv[xi]
        gy == yv[yi]
    IN  [x |-> gx, y |-> gy, score |-> Z[yi][xi],
         competitors |-> Len(SelectSeq(pois,
                            LAMBDA p : WithinBuffer(p, <<gx, gy>>, competitor_radius)))]

\* lines 205-213
CountCompetitors ==
    /\ kpc = "peaks"
    /\ candidates' = [k \in 1..Len(peak_idx) |-> Candidate(k)]
    /\ kpc' = "counted"
    /\ UNCHANGED <<Z, local_max, peak_idx, area, grid_size, competitor_radius, top_n,
                   pois_all, pois, kde_fit, xv, yv, features, cutVars, smoothVars, pipeVars, extVars>>

\* lines 215-216
NoCandidates ==
    /\ kpc = "counted"
    /\ candidates = <<>>
    /\ ReturnEmpty
    /\ UNCHANGED <<Z, local_max, peak_idx, area, grid_size, competitor_radius, top_n,
                   pois_all, pois, kde_fit, xv, yv, candidates, cutVars, smoothVars, pipeVars, extVars>>


\* ---- scoring (lines 218-224)
EpsNum(whole, eps) == [whole |-> whole, eps |-> eps]
EpsScale(k, e) == EpsNum(k * e.whole, k * e.eps)
EpsAdd(e, f) == EpsNum(e.whole + f.whole, e.eps + f.eps)
EpsLess(e, f) == e.whole < f.whole \/ (e.whole = f.whole /\ e.eps < f.eps)

\* (scores - scores.min()) / (scores.max() - scores.min() + 1e-9) (line 220);
\* scores are in units of 1e-9, so the added 1e-9 is one unit
ScoreNorm(sc, smin, smax) == [num |-> sc - smin, den |-> smax - smin + 1]

\* mutant: the competitor term is not inverted, the "1 -" is missing
CompNormNotInverted(c, cmin, cmax) ==
    [num |-> EpsNum(c - cmin, 0), den |-> EpsNum(cmax - cmin, 1)]

\* 1 - (comps - comps.min()) / (comps.max() - comps.min() + 1e-9) (line 221),
\* as the fraction (max + 1e-9 - comps) / (max - min + 1e-9)
CompNorm(c, cmin, cmax) == [num |-> EpsNum(cmax - c, 1), den |-> EpsNum(cmax - cmin, 1)]

\* mutant: the weights 0.7 and 0.3 are exchanged
FinalSwapped(sn, cn) ==
    [num |-> EpsAdd(EpsScale(3 * sn.num, cn.den), EpsScale(7 * sn.den, cn.num)),
     den |-> EpsScale(10 * sn.den, cn.den)]

\* final = 0.7 * score_norm + 0.3 * comp_norm (line 222), over the common
\* denominator 10 * sn.den * cn.den
Final(sn, cn) ==
    [num |-> EpsAdd(EpsScale(7 * sn.num, cn.den), EpsScale(3 * sn.den, cn.num)),
     den |-> EpsScale(10 * sn.den, cn.den)]

\* finals of one call share their denominator: the larger numerator wins
FinalLess(f, g) == EpsLess(f.num, g.num)

Scored(cands) ==
    LET scores == {cands[i].score : i \in 1..Len(cands)}
        comps == {cands[i].competitors : i \in 1..Len(cands)}
    IN  [i \in 1..Len(cands) |->
           [x |-> cands[i].x, y |-> cands[i].y, score |-> cands[i].score,
            competitors |-> cands[i].competitors,
            final |-> Final(ScoreNorm(cands[i].score, MinOf(scores), MaxOf(scores)),
                            CompNorm(cands[i].competitors, MinOf(comps), MaxOf(comps)))]]

\* lines 218-224
Score ==
    /\ kpc = "counted"
    /\ candidates # <<>>
    /\ candidates' = Scored(candidates)
    /\ kpc' = "scored"
    /\ UNCHANGED <<Z, local_max, peak_idx, area, grid_size, competitor_radius, top_n,
                   pois_all, pois, kde_fit, xv, yv, features, cutVars, smoothVars, pipeVars, extVars>>

\* ---- ranking (line 226): Python's sorted is stable, also with reverse=True
RECURSIVE InsertDesc(_, _)
InsertDesc(c, sq) ==
    IF sq = <<>> THEN <<c>>
    ELSE IF FinalLess(Head(sq).final, c.final) THEN <<c>> \o sq
    ELSE <<Head(sq)>> \o InsertDesc(c, Tail(sq))

RECURSIVE SortedFrom(_, _, _)
SortedFrom(sq, i, acc) ==
    IF i > Len(sq) THEN acc ELSE SortedFrom(sq, i + 1, InsertDesc(sq[i], acc))

\* mutant: reverse=True is missing
RECURSIVE InsertAsc(_, _)
InsertAsc(c, sq) ==
    IF sq = <<>> THEN <<c>>
    ELSE IF FinalLess(c.final, Head(sq).final) THEN <<c>> \o sq
    ELSE <<Head(sq)>> \o InsertAsc(c, Tail(sq))

RECURSIVE SortedAscFrom(_, _, _)
SortedAscFrom(sq, i, acc) ==
    IF i > Len(sq) THEN acc ELSE SortedAscFrom(sq, i + 1, InsertAsc(sq[i], acc))

SortedAscending(sq) == SortedAscFrom(sq, 1, <<>>)

\* sorted(candidates, key=lambda d: d['final'], reverse=True)
SortedByFinal(sq) == SortedFrom(sq, 1, <<>>)

\* lst[:n] for n >= 0
Take(sq, n) == SubSeq(sq, 1, IF n < Len(sq) THEN n ELSE Len(sq))

\* line 226
SortTop ==
    /\ kpc = "scored"
    /\ candidates' = Take(SortedByFinal(candidates), top_n)
    /\ kpc' = "ranked"
    /\ UNCHANGED <<Z, local_max, peak_idx, area, grid_size, competitor_radius, top_n,
                   pois_all, pois, kde_fit, xv, yv, features, cutVars, smoothVars, pipeVars, extVars>>

\* cand_gdf.to_crs(epsg=4326) (line 229) on one point: Web-Mercator metres
\* to degrees, linearised at the origin (9 microdegrees to the metre)
ToWgs84(x, y) == <<9 * x, 9 * y>>

\* lines 232-239
Feature(r) ==
    [final |-> r.final, competitors |-> r.competitors, geometry |-> ToWgs84(r.x, r.y)]

\* lines 228-241
Emit ==
    /\ kpc = "ranked"
    /\ features' = [i \in 1..Len(candidates) |-> Feature(candidates[i])]
    /\ kpc' = "done"
    /\ UNCHANGED <<Z, local_max, peak_idx, area, grid_size, competitor_radius, top_n,
                   pois_all, pois, kde_fit, xv, yv, candidates, cutVars, smoothVars, pipeVars, extVars>>

NextCand ==
    \/ FilterPois
    \/ TooFewPois
    \/ FitAndGrid
    \/ GridEmpty
    \/ EvalDensity
    \/ FindPeaks
    \/ CountCompetitors
    \/ NoCandidates
    \/ Score
    \/ SortTop
    \/ Emit

SpecCand == InitCand /\ [][NextCand]_vars

\* ---------------------------------------------------------------------
\* compute_candidates as a whole (lines 141-241): the category selection,
\* geocoding and the fetch loop in front of the stages above.
\* ---------------------------------------------------------------------

\* the keys of CATEGORY_TO_TAGS (lines 126-137)
CATEGORY_TO_TAGS ==
    {"shops", "banks", "hospitals", "schools", "clinics", "bus_stops",
     "theatres", "restaurants", "pharmacies", "parking"}

\* line 150
DefaultCategories == <<"shops", "banks", "hospitals", "schools", "bus_stops">>

\* the selections passed by the callers: None, [], the preselection of the
\* multiselect, and lists with a name that has no tag mapping
Selections ==
    {[given |-> FALSE, cats |-> <<>>],
     [given |-> TRUE, cats |-> <<>>],
     [given |-> TRUE, cats |-> <<"shops", "banks", "schools">>],
     [given |-> TRUE, cats |-> <<"cafes", "shops", "theatres", "hospitals", "banks">>],
     [given |-> TRUE, cats |-> <<"cafes">>]}

\* what ox.geometries_from_place answers for the tags of a category when it
\* answers at all: the centroids of the features, in map units
OsmFrame(cat) ==
    CASE cat = "shops"     -> << <<0, 0>>, <<0, 0>> >>
      [] cat = "banks"     -> << <<3, 0>> >>
      [] cat = "hospitals" -> << <<0, 3>> >>
      [] cat = "schools"   -> << <<3, 3>> >>
      [] cat = "bus_stops" -> << <<4, 1>>, <<5, 0>> >>
      [] cat = "clinics"   -> << <<1, 0>> >>
      [] OTHER             -> <<>>

PipeGridSizes == {0 - 1, 0, 1, 2, 5}
PipeTopNs == {2, 12}
Bandwidths == {0, 1}

RECURSIVE Concat(_)
\* pd.concat(poi_frames, ignore_index=True) (line 175)
Concat(frames) ==
    IF frames = <<>> THEN <<>> ELSE Head(frames) \o Concat(Tail(frames))

InitPipe ==
    /\ selected_categories \in Selections
    /\ bandwidth \in Bandwidths
    /\ area \in Areas
    /\ grid_size \in PipeGridSizes
    /\ competitor_radius = 2
    /\ top_n \in PipeTopNs
    /\ tag_list = <<>>
    /\ tag_i = 0
    /\ poi_frames = <<>>
    /\ failures = {}
    /\ pois_all = <<>>
    /\ pois = <<>>
    /\ kde_fit = <<>>
    /\ xv = <<>>
    /\ yv = <<>>
    /\ candidates = <<>>
    /\ features = <<>>
    /\ Z = <<>>
    /\ kpc = "start"
    /\ local_max = <<>>
    /\ peak_idx = <<>>
    /\ coords0 = <<>>
    /\ coords = <<>>
    /\ passes = 0
    /\ SmoothIdle
    /\ ExtIdle

\* lines 148-150
ChooseCategories ==
    /\ kpc = "start"
    /\ selected_categories' =
          IF ~selected_categories.given \/ selected_categories.cats = <<>>
          THEN [given |-> TRUE, cats |-> DefaultCategories]
          ELSE selected_categories
    /\ kpc' = "geocode"
    /\ UNCHANGED <<Z, local_max, peak_idx, candVars, bandwidth, tag_list, tag_i,
                   poi_frames, failures, cutVars, smoothVars, extVars>>

\* line 153, ox.geocode_to_gdf answers with the area
GeocodeOk ==
    /\ kpc = "geocode"
    /\ kpc' = "tags"
    /\ UNCHANGED <<Z, local_max, peak_idx, candVars, pipeVars, cutVars, smoothVars, extVars>>

\* lines 153-155, ox.geocode_to_gdf raises
GeocodeFails ==
    /\ kpc = "geocode"
    /\ failures' = failures \cup {"geocode"}
    /\ ReturnEmpty
    /\ UNCHANGED <<Z, local_max, peak_idx, area, grid_size, competitor_radius, top_n,
                   pois_all, pois, kde_fit, xv, yv, candidates,
                   selected_categories, bandwidth, tag_list, tag_i, poi_frames,
                   cutVars, smoothVars, extVars>>

\* lines 157-163: a tag stands for the category it is mapped from
BuildTagList ==
    /\ kpc = "tags"
    /\ tag_list' = SelectSeq(selected_categories.cats, LAMBDA cat : cat \in CATEGORY_TO_TAGS)
    /\ tag_i' = 1
    /\ poi_frames' = <<>>
    /\ kpc' = "fetch"
    /\ UNCHANGED <<Z, local_max, peak_idx, candVars, selected_categories, bandwidth,
                   failures, cutVars, smoothVars, extVars>>

\* lines 164-168, the fetch answers with a non-empty frame
FetchFrame ==
    /\ kpc = "fetch"
    /\ tag_i <= Len(tag_list)
    /\ OsmFrame(tag_list[tag_i]) # <<>>
    /\ poi_frames' = Append(poi_frames, OsmFrame(tag_list[tag_i]))
    /\ tag_i' = tag_i + 1
    /\ UNCHANGED <<peakVars, candVars, selected_categories, bandwidth, tag_list,
                   failures, cutVars, smoothVars, extVars>>

\* lines 164-167, the fetch answers with an empty frame
FetchEmpty ==
    /\ kpc = "fetch"
    /\ tag_i <= Len(tag_list)
    /\ OsmFrame(tag_list[tag_i]) = <<>>
    /\ tag_i' = tag_i + 1
    /\ UNCHANGED <<peakVars, candVars, selected_categories, bandwidth, tag_list,
                   poi_frames, failures, cutVars, smoothVars, extVars>>

\* mutant: a fetch that raises ends the function with the empty collection
FetchRaisesAborts ==
    /\ kpc = "fetch"
    /\ tag_i <= Len(tag_list)
    /\ failures' = failures \cup {"fetch"}
    /\ ReturnEmpty
    /\ UNCHANGED <<Z, local_max, peak_idx, area, grid_size, competitor_radius, top_n,
                   pois_all, pois, kde_fit, xv, yv, candidates,
                   selected_categories, bandwidth, tag_list, tag_i, poi_frames,
                   cutVars, smoothVars, extVars>>

\* lines 164-166, 169-170, the fetch raises
FetchRaises ==
    /\ kpc = "fetch"
    /\ tag_i <= Len(tag_list)
    /\ failures' = failures \cup {"fetch"}
    /\ tag_i' = tag_i + 1
    /\ UNCHANGED <<peakVars, candVars, selected_categories, bandwidth, tag_list,
                   poi_frames, cutVars, smoothVars, extVars>>

\* lines 172-173
NoFrames ==
    /\ kpc = "fetch"
    /\ tag_i > Len(tag_list)
    /\ poi_frames = <<>>
    /\ ReturnEmpty
    /\ UNCHANGED <<Z, local_max, peak_idx, area, grid_size, competitor_radius, top_n,
                   pois_all, pois, kde_fit, xv, yv, candidates, pipeVars,
                   cutVars, smoothVars, extVars>>

\* lines 175-179
ConcatFrames ==
    /\ kpc = "fetch"
    /\ tag_i > Len(tag_list)
    /\ poi_frames # <<>>
    /\ pois_all' = Concat(poi_frames)
    /\ pois' = pois_all'
    /\ kpc' = "filter"
    /\ UNCHANGED <<Z, local_max, peak_idx, area, grid_size, competitor_radius, top_n,
                   kde_fit, xv, yv, candidates, features, pipeVars, cutVars, smoothVars, extVars>>

\* lines 186-192 outside any try: KernelDensity rejects a bandwidth that is
\* not positive, np.arange a step of zero; the exception leaves the function
FitOrGridRaises ==
    /\ kpc = "filtered"
    /\ Len(pois) >= 3
    /\ bandwidth <= 0 \/ grid_size = 0
    /\ failures' = failures \cup {"density"}
    /\ kpc' = "raised"
    /\ UNCHANGED <<Z, local_max, peak_idx, candVars, selected_categories, bandwidth,
                   tag_list, tag_i, poi_frames, cutVars, smoothVars, extVars>>

NextPipe ==
    \/ ChooseCategories
    \/ GeocodeOk
    \/ GeocodeFails
    \/ BuildTagList
    \/ FetchFrame
    \/ FetchEmpty
    \/ FetchRaises
    \/ NoFrames
    \/ ConcatFrames
    \/ FilterPois
    \/ TooFewPois
    \/ FitAndGrid
    \/ FitOrGridRaises
    \/ GridEmpty
    \/ EvalDensity
    \/ FindPeaks
    \/ CountCompetitors
    \/ NoCandidates
    \/ Score
    \/ SortTop
    \/ Emit

SpecPipe == InitPipe /\ [][NextPipe]_vars

\* ---------------------------------------------------------------------
\* The page script (lines 244-582) within one session: every interaction
\* with a widget reruns the script from the top; st.session_state is kept
\* from run to run; a click on the map runs only the script of the map.
\* ---------------------------------------------------------------------

\* lines 251-259, with two of the 36 names
INDIA_STATES_AND_UTS == <<"Andhra Pradesh", "Goa">>

\* lines 84-122: the names found for a state, [] when the lookup fails
get_districts_for_state(state_name) ==
    IF state_name = "Goa" THEN <<"North Goa", "South Goa">> ELSE <<>>

\* what a click on the map resolves to (reverseGeocode, lines 442-452, 524-529)
Clicks ==
    {[lat |-> "15.5", lon |-> "73.8", state |-> "Goa", district |-> "North Goa"],
     [lat |-> "15.9", lon |-> "80.2", state |-> "Andhra Pradesh", district |-> "Guntur"],
     [lat |-> "10.0", lon |-> "70.0", state |-> "", district |-> ""]}

\* values of the range input of the map (line 386)
RadiusValues == {"10", "25"}

\* line 531
QueryOf(c, r) ==
    [lat |-> c.lat, lon |-> c.lon, r |-> r, state |-> c.state, district |-> c.district]

\* lines 244-249: no query, or the query a click has written
EmptyQuery == [lat |-> "", lon |-> "", r |-> "10", state |-> "", district |-> ""]
Queries == {EmptyQuery} \cup {QueryOf(c, r) : c \in Clicks, r \in RadiusValues}

\* the values tried for the three sliders of lines 301-303, defaults first
SliderValues ==
    [kde_bandwidth : {800, 900}, grid_size : {250, 300}, competitor_radius : {500}]
SliderDefaults == [kde_bandwidth |-> 800, grid_size |-> 250, competitor_radius |-> 500]

\* line 310: the default of the multiselect, and other choices
ChosenDefault == <<"Shops", "Banks", "Schools">>
ChosenValues == {ChosenDefault, <<>>, <<"Clinics">>}

\* texts typed into the district text input (line 299)
DistrictTexts == {"", "  ", "Guntur"}

\* what compute_candidates returns to the page: no feature, one or two
UiFeature(f, c, lon, lat) ==
    [properties |-> [final |-> f, competitors |-> c], geometry |-> <<lon, lat>>]
UiResults ==
    {<<>>,
     <<UiFeature(700, 0, 738, 155)>>,
     <<UiFeature(650, 1, 802, 159), UiFeature(300, 4, 801, 158)>>}

\* s.strip() == ""
Blank(s) == s \in {"", "  "}

InSeq(v, sq) == \E i \in 1..Len(sq) : sq[i] = v

\* list.index(v), counted from 1
IndexOf(sq, v) == CHOOSE i \in 1..Len(sq) : sq[i] = v /\ \A j \in 1..(i - 1) : sq[j] # v

\* lines 282-284, counted from 1
InitialStateIndex(q) ==
    IF q.state # "" /\ InSeq(q.state, INDIA_STATES_AND_UTS)
    THEN IndexOf(INDIA_STATES_AND_UTS, q.state)
    ELSE 1

\* lines 287-291
DistrictList(st, q) ==
    LET district_list == get_districts_for_state(st) IN
    IF q.district # "" /\ ~InSeq(q.district, district_list) /\ ~Blank(q.district)
    THEN <<q.district>> \o district_list
    ELSE district_list

\* lines 293-299: the widget the script creates for the district
DistrictWidget(st, q) ==
    LET district_list == DistrictList(st, q)
        opts == <<"">> \o district_list
    IN  IF district_list # <<>>
        THEN [kind |-> "selectbox", opts |-> opts,
              index |-> IF q.district # "" /\ InSeq(q.district, district_list)
                        THEN IndexOf(opts, q.district) ELSE 1,
              value |-> ""]
        ELSE [kind |-> "text_input", opts |-> <<>>, index |-> 0, value |-> q.district]

\* the value of a widget that has just been created
WidgetDefault(w) == IF w.kind = "selectbox" THEN w.opts[w.index] ELSE w.value

\* lines 319-322 and 347-352: the place as the list of its comma separated parts
Place(st, d) ==
    IF d # "" /\ ~Blank(d) THEN <<d, st, "India">> ELSE <<st, "India">>

\* lines 335-340
TableRows(feats) ==
    [i \in 1..Len(feats) |->
        [lat |-> feats[i].geometry[2], lon |-> feats[i].geometry[1],
         score |-> feats[i].properties.final,
         competitors |-> feats[i].properties.competitors]]

InitUI ==
    /\ query \in Queries
    /\ state_widget = InitialStateIndex(query)
    /\ selected_state = INDIA_STATES_AND_UTS[state_widget]
    /\ district_widget = DistrictWidget(selected_state, query)
    /\ district_choice = WidgetDefault(district_widget)
    /\ sliders = SliderDefaults
    /\ chosen = ChosenDefault
    /\ candidates_geojson = [present |-> FALSE, features |-> <<>>]
    /\ stored_place = <<>>
    /\ event = "load"
    /\ pressed = FALSE
    /\ table = [shown |-> FALSE, rows |-> <<>>]
    /\ map_candidates = <<>>
    /\ area_query = Place(selected_state, district_choice)
    /\ AppIdle
    /\ AreaIdle
    /\ PeaksIdle
    /\ CandIdle
    /\ PipeIdle
    /\ coords0 = <<>>
    /\ coords = <<>>
    /\ passes = 0
    /\ SmoothIdle

\* mutant: the candidates are computed in every page run
FindBestLocationsAlways(press, place) ==
    \E cand_geojson \in UiResults :
        /\ candidates_geojson' = [present |-> TRUE, features |-> cand_geojson]
        /\ stored_place' = place

\* lines 318-331: the handler of the button
FindBestLocations(press, place) ==
    IF press
    THEN \E cand_geojson \in UiResults :
            /\ candidates_geojson' = [present |-> TRUE, features |-> cand_geojson]
            /\ stored_place' = place
    ELSE UNCHANGED <<candidates_geojson, stored_place>>

\* one run of the script, lines 244-582, with the widget values st, di, sl,
\* ch the browser sends; a widget created with other options or another
\* default than in the run before starts from its default
PageRun(st, di, sl, ch, press, ev) ==
    LET initial_state_index == InitialStateIndex(query)
        state_now == IF initial_state_index # state_widget
                     THEN INDIA_STATES_AND_UTS[initial_state_index] ELSE st
        widget == DistrictWidget(state_now, query)
        district_now == IF widget # district_widget THEN WidgetDefault(widget) ELSE di
    IN  /\ state_widget' = initial_state_index
        /\ selected_state' = state_now
        /\ district_widget' = widget
        /\ district_choice' = district_now
        /\ sliders' = sl
        /\ chosen' = ch
        /\ FindBestLocations(press, Place(state_now, district_now))
        /\ table' = IF candidates_geojson'.present /\ candidates_geojson'.features # <<>>
                    THEN [shown |-> TRUE, rows |-> TableRows(candidates_geojson'.features)]
                    ELSE [shown |-> FALSE, rows |-> <<>>]
        /\ area_query' = Place(state_now, district_now)
        /\ map_candidates' = candidates_geojson'.features
        /\ pressed' = press
        /\ event' = ev
        /\ UNCHANGED <<query, cutVars, smoothVars, peakVars, candVars, pipeVars, appVars, areaVars>>

\* the user picks another state (line 285)
SelectState ==
    \E s \in {INDIA_STATES_AND_UTS[i] : i \in 1..Len(INDIA_STATES_AND_UTS)} :
        /\ s # selected_state
        /\ PageRun(s, district_choice, sliders, chosen, FALSE, "state")

\* the user picks or types another district (lines 297, 299)
SelectDistrict ==
    \E d \in IF district_widget.kind = "selectbox"
              THEN {district_widget.opts[i] : i \in 1..Len(district_widget.opts)}
              ELSE DistrictTexts :
        /\ d # district_choice
        /\ PageRun(selected_state, d, sliders, chosen, FALSE, "district")

\* the user moves one of the three sliders (lines 301-303)
MoveSlider ==
    \E sl \in SliderValues :
        /\ Cardinality({f \in DOMAIN sl : sl[f] # sliders[f]}) = 1
        /\ PageRun(selected_state, district_choice, sl, chosen, FALSE, "slider")

\* the user changes the categories (line 310)
ChangeCategories ==
    \E ch \in ChosenValues :
        /\ ch # chosen
        /\ PageRun(selected_state, district_choice, sliders, ch, FALSE, "categories")

\* the user presses "Find best locations" (line 318)
PressButton ==
    /\ event' = "button"
    /\ PageRun(selected_state, district_choice, sliders, chosen, TRUE, "button")

\* lines 511-543: a click on the map rewrites the query and runs nothing else
MapClick ==
    \E c \in Clicks, r \in RadiusValues :
        /\ query' = QueryOf(c, r)
        /\ event' = "click"
        /\ UNCHANGED <<selected_state, state_widget, district_choice, district_widget,
                       sliders, chosen, candidates_geojson, stored_place, pressed, table,
                       map_candidates, area_query,
                       cutVars, smoothVars, peakVars, candVars, pipeVars, appVars, areaVars>>

NextUI ==
    \/ SelectState
    \/ SelectDistrict
    \/ MoveSlider
    \/ ChangeCategories
    \/ PressButton
    \/ MapClick

SpecUI == InitUI /\ [][NextUI]_vars

\* ---------------------------------------------------------------------
\* streamlit_app.py: one run of the script, stage by stage
\* ---------------------------------------------------------------------

\* values of the four sliders of lines 196-200, in hundredths
WeightValues == {0, 20, 40, 100}

\* mutant: weights.sum() == 0 is not handled
WeightsNoZeroCase(w) == [num |-> w, den |-> w[1] + w[2] + w[3] + w[4]]

\* lines 203-206: weights / weights.sum(), the quotients num[i] / den
Weights(w) ==
    LET raw == IF w[1] + w[2] + w[3] + w[4] = 0 THEN <<25, 25, 25, 25>> ELSE w
    IN  [num |-> raw, den |-> raw[1] + raw[2] + raw[3] + raw[4]]

\* lines 195-206
NormaliseWeights ==
    /\ apc = "weights"
    /\ weights' = Weights(w_sliders)
    /\ apc' = "score"
    /\ UNCHANGED <<uploaded_shp, use_bbox, bbox_input, cand_upload, grid_res_m, app_top_n,
                   w_sliders, study_area, app_candidates, osm_pois, indicators, df,
                   shown_table, shown_map,
                   cutVars, smoothVars, peakVars, candVars, pipeVars, uiVars, areaVars>>

InitWeights ==
    /\ w_sliders \in WeightValues \X WeightValues \X WeightValues \X WeightValues
    /\ apc = "weights"
    /\ AppInputsIdle
    /\ AppOutputsIdle
    /\ UiIdle
    /\ AreaIdle
    /\ PeaksIdle
    /\ CandIdle
    /\ PipeIdle
    /\ coords0 = <<>>
    /\ coords = <<>>
    /\ passes = 0
    /\ SmoothIdle

NextWeights == NormaliseWeights

SpecWeights == InitWeights /\ [][NextWeights]_vars

\* to_crs(epsg=3857) on one point, the inverse of ToWgs84 (exact on the
\* coordinates used here, which are multiples of 9 microdegrees)
ToMercator(p) == <<p[1] \div 9, p[2] \div 9>>

\* box(minx, miny, maxx, maxy) in EPSG:4326 (line 37)
Box(src, minx, miny, maxx, maxy) ==
    [source |-> src, minx |-> minx, miny |-> miny, maxx |-> maxx, maxy |-> maxy]

\* load_area_from_bbox (lines 35-38) on the texts tried: four numbers parse,
\* anything else raises
ParseBBox(bbox_txt) ==
    CASE bbox_txt = "0,0,360,360" -> [ok |-> TRUE, area |-> Box("bbox", 0, 0, 360, 360)]
      [] bbox_txt = "0,0,180,360" -> [ok |-> TRUE, area |-> Box("bbox", 0, 0, 180, 360)]
      [] OTHER                    -> [ok |-> FALSE, area |-> NoArea]

\* the text of line 83, in the coordinates of the model
DemoBBox == "0,0,180,360"

\* what the user may have typed at line 22
BBoxTexts == {"0,0,360,360", "0,0,360"}

\* the study area file: none uploaded, one that reads, one that does not
UploadedAreas ==
    {[kind |-> "none", area |-> NoArea],
     [kind |-> "loads", area |-> Box("file", 0, 0, 360, 180)],
     [kind |-> "raises", area |-> NoArea]}

\* a row of a frame: columns a frame does not have hold 0
Row(geometry, id, count, to_poi, to_center, land, score) ==
    [geometry |-> geometry, id |-> id, poi_count_service |-> count,
     dist_to_poi_m |-> to_poi, dist_to_center_m |-> to_center,
     land_suitability |-> land, score |-> score]

PointRow(p, id) == Row(p, id, 0, 0, 0, 0, 0)

\* the candidate CSV: none uploaded, one that cannot be read, and frames
\* with the columns named
CsvPoints == << <<90, 90>>, <<270, 90>>, <<270, 270>> >>
CsvFrame(cols) ==
    [kind |-> "frame",
     frame |-> [columns |-> cols,
                rows |-> [i \in 1..Len(CsvPoints) |->
                           PointRow(CsvPoints[i], IF "id" \in cols THEN 100 + i ELSE 0)]]]
CandidateUploads ==
    {[kind |-> "none", frame |-> NoFrame],
     [kind |-> "unreadable", frame |-> NoFrame],
     CsvFrame({"x", "y"}),
     CsvFrame({"lon", "lat"}),
     CsvFrame({"lon", "lat", "name"}),
     CsvFrame({"lon", "lat", "id"})}

GridResolutions == {20}
AppTopNs == {1, 2, 10}
AppWeightSettings == {<<40, 20, 20, 20>>, <<0, 0, 0, 0>>, <<100, 0, 0, 0>>}

\* int(service_km * 1000) (line 160), in map units
ServiceRadius == 12

\* the points of the OSM answer (lines 137-150) in EPSG:4326; none when the
\* fetch fails or finds nothing
OsmAnswers == {<<>>, << <<90, 90>>, <<90, 180>>, <<270, 270>> >>}

\* np.random.rand (line 184), in tenths
LandValues == {1, 9}

InitApp ==
    /\ uploaded_shp \in UploadedAreas
    /\ use_bbox \in BOOLEAN
    /\ bbox_input \in IF use_bbox THEN BBoxTexts ELSE {""}
    /\ cand_upload \in CandidateUploads
    /\ grid_res_m \in GridResolutions
    /\ app_top_n \in AppTopNs
    /\ w_sliders \in AppWeightSettings
    /\ apc = "start"
    /\ AppOutputsIdle
    /\ UiIdle
    /\ AreaIdle
    /\ PeaksIdle
    /\ CandIdle
    /\ PipeIdle
    /\ coords0 = <<>>
    /\ coords = <<>>
    /\ passes = 0
    /\ SmoothIdle

\* mutant: the bounding box is tried before the uploaded file
StudyAreaBBoxFirst ==
    IF use_bbox /\ ParseBBox(bbox_input).ok THEN ParseBBox(bbox_input).area
    ELSE IF uploaded_shp.kind = "loads" THEN uploaded_shp.area
    ELSE ParseBBox(DemoBBox).area

\* lines 52-83: the uploaded file, else the bounding box, else the demo box
StudyArea ==
    LET from_file == IF uploaded_shp.kind = "loads" THEN uploaded_shp.area ELSE NoArea
        from_bbox == IF from_file = NoArea /\ use_bbox
                     THEN ParseBBox(bbox_input).area ELSE from_file
    IN  IF from_bbox = NoArea
        THEN [ParseBBox(DemoBBox).area EXCEPT !.source = "demo"]
        ELSE from_bbox

\* lines 52-83
StudyAreaStage ==
    /\ apc = "start"
    /\ study_area' = StudyArea
    /\ apc' = "candidates"
    /\ UNCHANGED <<uploaded_shp, use_bbox, bbox_input, cand_upload, grid_res_m, app_top_n,
                   w_sliders, app_candidates, osm_pois, indicators, weights, df,
                   shown_table, shown_map,
                   cutVars, smoothVars, peakVars, candVars, pipeVars, uiVars, areaVars>>

\* create_grid (lines 93-109)
create_grid(area_gdf, res_m) ==
    LET lo == ToMercator(<<area_gdf.minx, area_gdf.miny>>)
        hi == ToMercator(<<area_gdf.maxx, area_gdf.maxy>>)
        a  == [minx |-> lo[1], miny |-> lo[2], maxx |-> hi[1], maxy |-> hi[2]]
        xs == Arange(a.minx, a.maxx, res_m)
        ys == Arange(a.miny, a.maxy, res_m)
        pts == [k \in 1..(Len(xs) * Len(ys)) |->
                  <<xs[((k - 1) \div Len(ys)) + 1] + res_m \div 2,
                    ys[((k - 1) % Len(ys)) + 1] + res_m \div 2>>]
        g == SelectSeq(pts, LAMBDA p : WithinArea(p, a))
    IN  [columns |-> {"geometry", "id"},
         rows |-> [i \in 1..Len(g) |-> PointRow(ToWgs84(g[i][1], g[i][2]), i - 1)]]

\* lines 111-126: the uploaded points when the CSV reads and has lon and lat,
\* the grid otherwise
Candidates ==
    IF cand_upload.kind = "frame" /\ {"lon", "lat"} \subseteq cand_upload.frame.columns
    THEN [columns |-> cand_upload.frame.columns \cup {"geometry"},
          rows |-> cand_upload.frame.rows]
    ELSE create_grid(study_area, grid_res_m)

\* lines 111-126
CandidateStage ==
    /\ apc = "candidates"
    /\ app_candidates' = Candidates
    /\ apc' = "indicators"
    /\ UNCHANGED <<uploaded_shp, use_bbox, bbox_input, cand_upload, grid_res_m, app_top_n,
                   w_sliders, study_area, osm_pois, indicators, weights, df,
                   shown_table, shown_map,
                   cutVars, smoothVars, peakVars, candVars, pipeVars, uiVars, areaVars>>

\* the integer part of the square root
ISqrt(n) == CHOOSE k \in 0..n : k * k <= n /\ n < (k + 1) * (k + 1)

\* shapely's distance between two points, in whole map units
Distance(p, q) == ISqrt(Dist2(p, q))

\* lines 164-182 for one row: the count inside the buffer, the distance to
\* the nearest point counted, the distance to the centroid of the area
IndicatorRow(row, study_area_gdf, pois_p, land) ==
    LET g == ToMercator(row.geometry)
        r_m == ServiceRadius
        pts_in == SelectSeq(pois_p, LAMBDA p : WithinBuffer(p, g, r_m))
        lo == ToMercator(<<study_area_gdf.minx, study_area_gdf.miny>>)
        hi == ToMercator(<<study_area_gdf.maxx, study_area_gdf.maxy>>)
        centroid == <<(lo[1] + hi[1]) \div 2, (lo[2] + hi[2]) \div 2>>
    IN  Row(row.geometry, row.id, Len(pts_in),
            IF Len(pts_in) > 0
            THEN MinOf({Distance(pts_in[i], g) : i \in 1..Len(pts_in)})
            ELSE (r_m * 3) \div 2,
            Distance(g, centroid), land, 0)

\* compute_indicators (lines 155-187)
compute_indicators(candidates_gdf, study_area_gdf, pois_gdf, land) ==
    LET pois_p == [i \in 1..Len(pois_gdf) |-> ToMercator(pois_gdf[i])]
    IN  [columns |-> candidates_gdf.columns \cup
                     {"poi_count_service", "dist_to_poi_m", "dist_to_center_m",
                      "land_suitability"},
         rows |-> [i \in 1..Len(candidates_gdf.rows) |->
                     IndicatorRow(candidates_gdf.rows[i], study_area_gdf, pois_p, land[i])]]

\* lines 133-189: the OSM answer and the random land suitability are not in
\* the script's hands
IndicatorStage ==
    /\ apc = "indicators"
    /\ \E answer \in OsmAnswers :
       \E land \in [1..Len(app_candidates.rows) -> LandValues] :
          /\ osm_pois' = answer
          /\ indicators' = compute_indicators(app_candidates, study_area, answer, land)
    /\ apc' = "weights"
    /\ UNCHANGED <<uploaded_shp, use_bbox, bbox_input, cand_upload, grid_res_m, app_top_n,
                   w_sliders, study_area, app_candidates, weights, df,
                   shown_table, shown_map,
                   cutVars, smoothVars, peakVars, candVars, pipeVars, uiVars, areaVars>>

\* normalize_series (lines 209-212) of a column: the quotients num[i] / den
normalize_series(s) ==
    IF s = <<>> THEN [num |-> <<>>, den |-> 1]
    ELSE LET vals == {s[i] : i \in 1..Len(s)}
             smax == MaxOf(vals)
             smin == MinOf(vals)
         IN  IF smax = smin
             THEN [num |-> [i \in 1..Len(s) |-> 1], den |-> 2]
             ELSE [num |-> [i \in 1..Len(s) |-> s[i] - smin], den |-> smax - smin]

\* lines 214-229: the frame with its score column; a score is the numerator
\* kept in the row over the denominator score_den common to all rows
Scores(ind, wts) ==
    LET rows == ind.rows
        pop    == normalize_series([i \in 1..Len(rows) |-> rows[i].poi_count_service])
        comp   == normalize_series([i \in 1..Len(rows) |-> rows[i].dist_to_poi_m])
        centre == normalize_series([i \in 1..Len(rows) |-> rows[i].dist_to_center_m])
        land   == normalize_series([i \in 1..Len(rows) |-> rows[i].land_suitability])
        score(i) ==
            wts.num[1] * pop.num[i] * comp.den * centre.den * land.den
          + wts.num[2] * comp.num[i] * pop.den * centre.den * land.den
          + wts.num[3] * (centre.den - centre.num[i]) * pop.den * comp.den * land.den
          + wts.num[4] * land.num[i] * pop.den * comp.den * centre.den
    IN  [columns |-> ind.columns \cup
                     {"pop_norm", "comp_norm", "access_norm", "land_norm", "score"},
         score_den |-> wts.den * pop.den * comp.den * centre.den * land.den,
         rows |-> [i \in 1..Len(rows) |-> [rows[i] EXCEPT !.score = score(i)]]]

\* mutant: sorted with ascending=True
SortedAscendingByScore(rows) ==
    {sorted \in {[i \in 1..Len(rows) |-> rows[perm[i]]] : perm \in Permutations(1..Len(rows))} :
        \A i \in 1..(Len(rows) - 1) : sorted[i].score <= sorted[i + 1].score}

\* df.sort_values("score", ascending=False) (line 231): the orders the sort
\* may return; rows of equal score come in an order the sort does not promise
SortedByScore(rows) ==
    {sorted \in {[i \in 1..Len(rows) |-> rows[perm[i]]] : perm \in Permutations(1..Len(rows))} :
        \A i \in 1..(Len(rows) - 1) : sorted[i].score >= sorted[i + 1].score}

\* lines 214-231
ScoreStage ==
    /\ apc = "score"
    /\ indicators # NoFrame
    /\ LET scored == Scores(indicators, weights)
       IN  \E sorted \in SortedByScore(scored.rows) :
              df' = [scored EXCEPT !.rows = sorted]
    /\ apc' = "table"
    /\ UNCHANGED <<uploaded_shp, use_bbox, bbox_input, cand_upload, grid_res_m, app_top_n,
                   w_sliders, study_area, app_candidates, osm_pois, indicators, weights,
                   shown_table, shown_map,
                   cutVars, smoothVars, peakVars, candVars, pipeVars, uiVars, areaVars>>

\* the columns selected at line 234
TableColumns ==
    {"id", "score", "poi_count_service", "dist_to_poi_m", "dist_to_center_m"}

\* lines 233-234
ShowTable ==
    /\ apc = "table"
    /\ TableColumns \subseteq df.columns
    /\ shown_table' =
          [i \in 1..Len(Take(df.rows, app_top_n)) |->
              [id |-> df.rows[i].id, score |-> df.rows[i].score,
               poi_count_service |-> df.rows[i].poi_count_service,
               dist_to_poi_m |-> df.rows[i].dist_to_poi_m,
               dist_to_center_m |-> df.rows[i].dist_to_center_m]]
    /\ apc' = "map"
    /\ UNCHANGED <<uploaded_shp, use_bbox, bbox_input, cand_upload, grid_res_m, app_top_n,
                   w_sliders, study_area, app_candidates, osm_pois, indicators, weights, df,
                   shown_map,
                   cutVars, smoothVars, peakVars, candVars, pipeVars, uiVars, areaVars>>

\* line 234 when the frame lacks a selected column: KeyError ends the run
ShowTableRaises ==
    /\ apc = "table"
    /\ ~(TableColumns \subseteq df.columns)
    /\ apc' = "raised"
    /\ UNCHANGED <<uploaded_shp, use_bbox, bbox_input, cand_upload, grid_res_m, app_top_n,
                   w_sliders, study_area, app_candidates, osm_pois, indicators, weights, df,
                   shown_table, shown_map,
                   cutVars, smoothVars, peakVars, candVars, pipeVars, uiVars, areaVars>>

\* lines 237-248
MapTop ==
    /\ apc = "map"
    /\ shown_map' =
          [i \in 1..Len(Take(df.rows, app_top_n)) |->
              [location |-> <<df.rows[i].geometry[2], df.rows[i].geometry[1]>>,
               id |-> df.rows[i].id, score |-> df.rows[i].score,
               poi_count_service |-> df.rows[i].poi_count_service]]
    /\ apc' = "done"
    /\ UNCHANGED <<uploaded_shp, use_bbox, bbox_input, cand_upload, grid_res_m, app_top_n,
                   w_sliders, study_area, app_candidates, osm_pois, indicators, weights, df,
                   shown_table,
                   cutVars, smoothVars, peakVars, candVars, pipeVars, uiVars, areaVars>>

NextApp ==
    \/ StudyAreaStage
    \/ CandidateStage
    \/ IndicatorStage
    \/ NormaliseWeights
    \/ ScoreStage
    \/ ShowTable
    \/ ShowTableRaises
    \/ MapTop

SpecApp == InitApp /\ [][NextApp]_vars

\* ---------------------------------------------------------------------
\* load_and_smooth_area (lines 66-82)
\* ---------------------------------------------------------------------

India == <<"I", "n", "d", "i", "a">>
CommaIndia == <<",", " ">> \o India

\* the area names tried: "Goa, India", "Kerala", "Indiana", "india"
AreaNames ==
    {<<"G", "o", "a">> \o CommaIndia,
     <<"K", "e", "r", "a", "l", "a">>,
     India \o <<"n", "a">>,
     <<"i", "n", "d", "i", "a">>}

\* needle in hay, for strings
Contains(hay, needle) ==
    \E i \in 1..(Len(hay) - Len(needle) + 1) : SubSeq(hay, i, i + Len(needle) - 1) = needle

\* line 68
Query(name) == IF Contains(name, India) THEN name ELSE name \o CommaIndia

\* GeoJSON geometries (line 73): a polygon is the list of its rings
GjPolygon(p) == [type |-> "Polygon", coordinates |-> <<p.exterior>> \o p.interiors]
GjMultiPolygon(ps) ==
    [type |-> "MultiPolygon",
     coordinates |-> [i \in 1..Len(ps) |-> <<ps[i].exterior>> \o ps[i].interiors]]
GjPoint(x, y) == [type |-> "Point", coordinates |-> <<x, y>>]
\* "geometry": null
GjNull == [type |-> "Null", coordinates |-> <<>>]

\* shape(feat["geometry"]) (line 76), defined on geometries that are not null
Shape(g) ==
    CASE g.type = "Polygon" ->
           [kind |-> "Polygon",
            polys |-> <<Poly(Head(g.coordinates), Tail(g.coordinates))>>]
      [] g.type = "MultiPolygon" ->
           [kind |-> "MultiPolygon",
            polys |-> [i \in 1..Len(g.coordinates) |->
                         Poly(Head(g.coordinates[i]), Tail(g.coordinates[i]))]]
      [] OTHER -> [kind |-> g.type, polys |-> <<>>, xy |-> g.coordinates]

\* mapping(smooth_geom) (line 78)
Mapping(g) ==
    CASE g.kind = "Polygon" -> GjPolygon(g.polys[1])
      [] g.kind = "MultiPolygon" -> GjMultiPolygon(g.polys)
      [] OTHER -> [type |-> g.kind, coordinates |-> g.xy]

\* smooth_polygon (lines 39-50) when Polygon(...) does not raise
SmoothedPolygon(p, k) ==
    Poly(IterCut(p.exterior, k),
         [i \in 1..Len(p.interiors) |-> IterCut(p.interiors[i], k)])

\* what chaikin_smooth (lines 23-63) returns for g when Polygon(...) raises
\* for the parts in kept: those parts as they were, the others rebuilt from
\* their smoothed rings
ChaikinResult(g, k, kept) ==
    IF g.kind \notin {"Polygon", "MultiPolygon"} THEN g
    ELSE [kind |-> g.kind,
          polys |-> [i \in 1..Len(g.polys) |->
                       IF i \in kept THEN g.polys[i] ELSE SmoothedPolygon(g.polys[i], k)]]

TriangleHole == Ring(<< <<1, 1>>, <<2, 1>>, <<1, 2>>, <<1, 1>> >>)

\* the features a geocoder answer is made of
AreaFeature(g) == [type |-> "Feature", geometry |-> g]
AreaFeatures ==
    {AreaFeature(GjPolygon(Poly(ShellRing, <<>>))),
     AreaFeature(GjPolygon(Poly(ShellRing, <<TriangleHole>>))),
     AreaFeature(GjMultiPolygon(<<Poly(ShellRing, <<>>), Poly(TriangleHole, <<>>)>>)),
     AreaFeature(GjPoint(Den, Den)),
     AreaFeature(GjNull)}

\* gdf.to_json() of the answers tried: no feature, one or two
GeocodeAnswers ==
    {<<>>} \cup {<<f>> : f \in AreaFeatures} \cup {<<f, g>> : f, g \in AreaFeatures}

SmoothIterValues == {1, SMOOTH_ITERS}

FeatureCollection(feats) == [type |-> "FeatureCollection", features |-> feats]

InitArea ==
    /\ area_name \in AreaNames
    /\ smooth_iters \in SmoothIterValues
    /\ lpc = "start"
    /\ geocode_q = <<>>
    /\ gdf = <<>>
    /\ gj = <<>>
    /\ feat_i = 0
    /\ raised_at = {}
    /\ kept_parts = {}
    /\ area_result = [type |-> "None", features |-> <<>>]
    /\ UiIdle
    /\ AppIdle
    /\ PeaksIdle
    /\ CandIdle
    /\ PipeIdle
    /\ coords0 = <<>>
    /\ coords = <<>>
    /\ passes = 0
    /\ SmoothIdle

\* lines 67-70, 73: the geocoder answers
GeocodeArea ==
    /\ lpc = "start"
    /\ geocode_q' = Query(area_name)
    /\ \E answer \in GeocodeAnswers :
          /\ gdf' = answer
          /\ gj' = answer
    /\ feat_i' = 1
    /\ lpc' = "loop"
    /\ UNCHANGED <<area_name, smooth_iters, raised_at, kept_parts, area_result,
                   cutVars, smoothVars, peakVars, candVars, pipeVars, uiVars, appVars>>

\* lines 67-72: the geocoder raises; index 0 stands for the geocoding
GeocodeAreaFails ==
    /\ lpc = "start"
    /\ geocode_q' = Query(area_name)
    /\ raised_at' = {0}
    /\ area_result' = FeatureCollection(<<>>)
    /\ lpc' = "done"
    /\ UNCHANGED <<area_name, smooth_iters, gdf, gj, feat_i, kept_parts,
                   cutVars, smoothVars, peakVars, candVars, pipeVars, uiVars, appVars>>

\* lines 74-78
SmoothFeature ==
    /\ lpc = "loop"
    /\ feat_i <= Len(gj)
    /\ gj[feat_i].geometry # GjNull
    /\ LET shp == Shape(gj[feat_i].geometry)
       IN  \E kept \in SUBSET (1..Len(shp.polys)) :
              /\ gj' = [gj EXCEPT ![feat_i].geometry =
                                    Mapping(ChaikinResult(shp, smooth_iters, kept))]
              /\ kept_parts' = kept_parts \cup {<<feat_i, j>> : j \in kept}
    /\ feat_i' = feat_i + 1
    /\ UNCHANGED <<area_name, smooth_iters, lpc, geocode_q, gdf, raised_at, area_result,
                   cutVars, smoothVars, peakVars, candVars, pipeVars, uiVars, appVars>>

\* mutant: the loop ends at the first feature that raises
SmoothFeatureRaisesBreaks ==
    /\ lpc = "loop"
    /\ feat_i <= Len(gj)
    /\ raised_at' = raised_at \cup {feat_i}
    /\ feat_i' = Len(gj) + 1
    /\ UNCHANGED <<area_name, smooth_iters, lpc, geocode_q, gdf, gj, kept_parts, area_result,
                   cutVars, smoothVars, peakVars, candVars, pipeVars, uiVars, appVars>>

\* lines 75-80: shape, chaikin_smooth or mapping raises (shape always does
\* on a null geometry); the feature stays as it is
SmoothFeatureRaises ==
    /\ lpc = "loop"
    /\ feat_i <= Len(gj)
    /\ raised_at' = raised_at \cup {feat_i}
    /\ feat_i' = feat_i + 1
    /\ UNCHANGED <<area_name, smooth_iters, lpc, geocode_q, gdf, gj, kept_parts, area_result,
                   cutVars, smoothVars, peakVars, candVars, pipeVars, uiVars, appVars>>

\* line 81
ReturnArea ==
    /\ lpc = "loop"
    /\ feat_i > Len(gj)
    /\ area_result' = FeatureCollection(gj)
    /\ lpc' = "done"
    /\ UNCHANGED <<area_name, smooth_iters, geocode_q, gdf, gj, feat_i, raised_at, kept_parts,
                   cutVars, smoothVars, peakVars, candVars, pipeVars, uiVars, appVars>>

NextArea ==
    \/ GeocodeArea
    \/ GeocodeAreaFails
    \/ SmoothFeature
    \/ SmoothFeatureRaises
    \/ ReturnArea

SpecArea == InitArea /\ [][NextArea]_vars







\* C1: one pass of _cut_ring over a list of n >= 3 coordinates, whose first
\* n-1 coordinates are the cyclic vertex list, yields exactly
\* Q_0,R_0,...,Q_(n-2),R_(n-2) followed by the closing point Q_0, with
\* Q_i = 3/4 v_i + 1/4 v_next and R_i = 1/4 v_i + 3/4 v_next, the edge from
\* v_(n-2) wrapping around to v_0; no output position holds an original vertex
\* (both new points of a non-degenerate edge differ from both of its ends).
C1_CutRingEdges ==
    [][(passes' = passes + 1 /\ Len(coords) >= 3) =>
        LET m == Len(coords) - 1
            out == coords'
        IN  /\ Len(out) = 2 * m + 1
            /\ \A i \in 0..(m - 1) :
                 LET v == coords[i + 1]
                     w == coords[((i + 1) % m) + 1]
                     q == out[2 * i + 1]
                     r == out[2 * i + 2]
                 IN  /\ 4 * q[1] = 3 * v[1] + w[1]
                     /\ 4 * q[2] = 3 * v[2] + w[2]
                     /\ 4 * r[1] = v[1] + 3 * w[1]
                     /\ 4 * r[2] = v[2] + 3 * w[2]
                     /\ (v # w) => ({q, r} \cap {v, w} = {})
            /\ out[2 * m + 1] = out[1]]_vars

\* C1 witness: a pass has run on an unclosed list of four distinct-ended
\* coordinates, so the wrap-around edge is not the closing duplicate.
C1_Witness ==
    /\ passes = 1
    /\ Len(coords0) = 4
    /\ coords0[1] # coords0[4]
    /\ coords0[3] # coords0[1]
    /\ Len(coords) = 7

\* C2: after every smoothing pass over an input of at least 3 coordinates,
\* closed or not, the first and the last coordinate of the ring are equal.
C2_RingClosed ==
    (passes >= 1 /\ Len(coords0) >= 3) => coords[1] = coords[Len(coords)]

\* C2 witness: all passes have run on an input that was not closed.
C2_Witness ==
    /\ passes = SMOOTH_ITERS
    /\ Len(coords0) >= 3
    /\ coords0[1] # coords0[Len(coords0)]
    /\ coords[1] = coords[Len(coords)]

\* what k passes make of the length of a ring of n coordinates
SmoothedLen(n, k) == IF n >= 3 THEN (2 ^ k) * (n - 1) + 1 ELSE n

\* C3: chaikin_smooth(geom, iterations = k) applies the pass exactly k times
\* to the exterior ring and to every interior ring: a ring that enters with
\* n >= 3 coordinates leaves with 2^k * (n - 1) + 1 coordinates, a ring with
\* fewer than 3 coordinates leaves unchanged.  Stated of the rings handed to
\* Polygon(ext_coords, interiors) and of the rings of every rebuilt part.
C3_PassCount ==
    /\ spc = "interiors" =>
         LET p == geom.polys[part_i] IN
         /\ Len(ext_coords) = SmoothedLen(Len(p.exterior), iterations)
         /\ Len(p.exterior) < 3 => ext_coords = p.exterior
         /\ \A j \in 1..Len(interiors) :
              Len(interiors[j]) = SmoothedLen(Len(p.interiors[j]), iterations)
    /\ spc = "done" =>
         \A i \in 1..Len(parts) :
            ~failed[i] =>
              /\ Len(sresult.polys[i].exterior)
                   = SmoothedLen(Len(geom.polys[i].exterior), iterations)
              /\ \A j \in 1..Len(geom.polys[i].interiors) :
                   Len(sresult.polys[i].interiors[j])
                     = SmoothedLen(Len(geom.polys[i].interiors[j]), iterations)

\* C3 witness: the default three passes have turned the 5-coordinate exterior
\* into 33 coordinates and a 4-coordinate interior into 25.
C3_Witness ==
    /\ spc = "done"
    /\ geom.kind = "Polygon"
    /\ iterations = SMOOTH_ITERS
    /\ failed = <<FALSE>>
    /\ Len(geom.polys[1].exterior) = 5
    /\ Len(sresult.polys[1].exterior) = 33
    /\ Len(geom.polys[1].interiors) = 2
    /\ Len(geom.polys[1].interiors[2]) = 4
    /\ Len(sresult.polys[1].interiors[2]) = 25

\* C4: the smoothed polygon has as many interior rings as the input, in the
\* same order, and each ring of a rebuilt part is determined by the
\* corresponding input ring and the iteration count alone.
C4_RingsIndependent ==
    spc = "done" =>
      /\ Len(sresult.polys) = Len(geom.polys)
      /\ \A i \in 1..Len(parts) :
           LET pin == geom.polys[i]
               pout == sresult.polys[i]
           IN  /\ Len(pout.interiors) = Len(pin.interiors)
               /\ ~failed[i] =>
                    /\ pout.exterior = IterCut(pin.exterior, iterations)
                    /\ \A j \in 1..Len(pin.interiors) :
                         pout.interiors[j] = IterCut(pin.interiors[j], iterations)

\* C4 witness: a polygon with two different interior rings has been rebuilt
\* from rings that the passes changed.
C4_Witness ==
    /\ spc = "done"
    /\ geom.kind = "Polygon"
    /\ iterations > 0
    /\ failed = <<FALSE>>
    /\ Len(geom.polys[1].interiors) = 2
    /\ geom.polys[1].interiors[1] # geom.polys[1].interiors[2]
    /\ sresult.polys[1].interiors[1] # sresult.polys[1].interiors[2]
    /\ sresult.polys[1].interiors[1] # geom.polys[1].interiors[1]

\* C5: when Polygon(ext_coords, interiors) raises, the original polygon is
\* what smooth_polygon yields: a Polygon input is returned unchanged, a
\* MultiPolygon keeps the original for each failing part (and the smoothed
\* one for every other part), and the call still returns a geometry of the
\* input's kind.
C5_FallbackToOriginal ==
    /\ \A i \in 1..Len(parts) : failed[i] => parts[i] = geom.polys[i]
    /\ spc = "done" =>
         /\ sresult.kind = geom.kind
         /\ \A i \in 1..Len(parts) : failed[i] => sresult.polys[i] = geom.polys[i]
         /\ (geom.kind = "Polygon" /\ failed = <<TRUE>>) => sresult = geom

\* C5 witness: of two parts with interior rings the first failed to rebuild
\* and was kept as it was, the second was rebuilt smoothed.
C5_Witness ==
    /\ spc = "done"
    /\ geom.kind = "MultiPolygon"
    /\ iterations > 0
    /\ failed = <<TRUE, FALSE>>
    /\ Len(geom.polys[1].interiors) > 0
    /\ sresult.polys[1] = geom.polys[1]
    /\ sresult.polys[2] # geom.polys[2]

\* the cells of the 3x3 neighbourhood of (y, x) that lie on the grid
Neighbourhood(G, y, x) ==
    {<<v, u>> \in (1..Rows(G)) \X (1..Cols(G)) :
        v - y \in {0 - 1, 0, 1} /\ u - x \in {0 - 1, 0, 1}}

IsPeak(y, x) == \E k \in 1..Len(peak_idx) : peak_idx[k] = <<y, x>>

\* C6: a grid cell is a candidate peak if and only if its density is at
\* least that of every cell of its 3x3 neighbourhood clipped to the grid
\* (plateau ties all retained) and strictly above the 75th percentile of all
\* grid densities; a grid of equal densities yields no peak.
C6_PeakIffLocalMaxAbove75 ==
    kpc = "peaks" =>
      /\ LET p75x4 == Percentile75x4(Z) IN
         \A y \in 1..Rows(Z), x \in 1..Cols(Z) :
           IsPeak(y, x) <=>
             /\ \A c \in Neighbourhood(Z, y, x) : Z[y][x] >= Z[c[1]][c[2]]
             /\ 4 * Z[y][x] > p75x4
      /\ (\A y \in 1..Rows(Z), x \in 1..Cols(Z) : Z[y][x] = Z[1][1]) => peak_idx = <<>>

\* C6 witness: on a 3x3 grid the two tied cells of a plateau in the top row
\* are both peaks, and they are the only cells above the percentile.
C6_Witness ==
    /\ kpc = "peaks"
    /\ Rows(Z) = 3
    /\ Cols(Z) = 3
    /\ Z[1][1] = 2
    /\ Z[1][2] = 2
    /\ Z[2][2] = 1
    /\ peak_idx = << <<1, 1>>, <<1, 2>> >>

Occurrences(v, sq) == Cardinality({i \in 1..Len(sq) : sq[i] = v})

ScoreSet == {candidates[i].score : i \in 1..Len(candidates)}
CompSet == {candidates[i].competitors : i \in 1..Len(candidates)}

\* C8 as claimed: final = 0.7 * D + 0.3 * (1 - C) with D and C the min-max
\* normalised density and competitor count, (v - min) / (max - min), wherever
\* those quotients are defined.
C8_MinMaxNormalised ==
    (kpc = "scored" /\ MaxOf(ScoreSet) > MinOf(ScoreSet) /\ MaxOf(CompSet) > MinOf(CompSet)) =>
      \A i \in 1..Len(candidates) :
         LET sr == MaxOf(ScoreSet) - MinOf(ScoreSet)
             cr == MaxOf(CompSet) - MinOf(CompSet)
             a == candidates[i].score - MinOf(ScoreSet)
             k == candidates[i].competitors - MinOf(CompSet)
             f == candidates[i].final
         IN  EpsScale(10 * sr * cr, f.num) = EpsScale(7 * a * cr + 3 * (cr - k) * sr, f.den)

\* C8 (amended): final = 0.7 * D + 0.3 * (1 - C) with the fixed weights 0.7
\* and 0.3, where D = (density - min) / (max - min + 1e-9) and
\* C = (count - min) / (max - min + 1e-9), min and max over all peaks of the
\* call.
C8_FinalLinear ==
    kpc = "scored" =>
      \A i \in 1..Len(candidates) :
         LET b == MaxOf(ScoreSet) - MinOf(ScoreSet) + 1
             a == candidates[i].score - MinOf(ScoreSet)
             cr == MaxOf(CompSet) - MinOf(CompSet)
             k == candidates[i].competitors - MinOf(CompSet)
             f == candidates[i].final
         IN  /\ f.den.whole = 10 * b * cr
             /\ f.den.eps = 10 * b
             /\ f.num.whole = 7 * a * cr + 3 * b * (cr - k)
             /\ f.num.eps = 7 * a + 3 * b
             /\ f.num.eps < EpsInv

\* C8 witness: scored peaks that differ in density and in competitor count.
C8_Witness ==
    /\ kpc = "scored"
    /\ Len(candidates) >= 3
    /\ Cardinality(ScoreSet) >= 2
    /\ Cardinality(CompSet) >= 2

\* C9: the returned features are the peaks ranked by final score: sorting
\* keeps min(top_n, number of peaks) of the scored peaks in non-increasing
\* order of final, no peak left out has a higher final than one kept, and
\* the features emitted are those peaks, reprojected, in that order.
C9_RankedByFinal ==
    [][/\ (kpc = "scored" /\ kpc' = "ranked") =>
            /\ Len(candidates') = (IF top_n < Len(candidates) THEN top_n ELSE Len(candidates))
            /\ \A j \in 1..(Len(candidates') - 1) :
                 ~FinalLess(candidates'[j].final, candidates'[j + 1].final)
            /\ \A j \in 1..Len(candidates') :
                 Occurrences(candidates'[j], candidates') = Occurrences(candidates'[j], candidates)
            /\ \A i \in 1..Len(candidates) :
                 Occurrences(candidates[i], candidates') = 0 =>
                   \A j \in 1..Len(candidates') :
                      ~FinalLess(candidates'[j].final, candidates[i].final)
       /\ (kpc = "ranked" /\ kpc' = "done") =>
            /\ Len(features') = Len(candidates)
            /\ \A j \in 1..Len(candidates) :
                 /\ features'[j].final = candidates[j].final
                 /\ features'[j].competitors = candidates[j].competitors
                 /\ features'[j].geometry = ToWgs84(candidates[j].x, candidates[j].y)
       /\ kpc' = "done" =>
            /\ Len(features') = (IF top_n < Len(peak_idx) THEN top_n ELSE Len(peak_idx))
            /\ \A j \in 1..(Len(features') - 1) :
                 ~FinalLess(features'[j].final, features'[j + 1].final)]_vars

\* C9 witness: of three peaks two are returned, the better one first although
\* it was found later, and the peak left out scores lower.
C9_Witness ==
    /\ kpc = "done"
    /\ top_n = 2
    /\ Len(peak_idx) = 3
    /\ Len(features) = 2
    /\ FinalLess(features[2].final, features[1].final)
    /\ features[1].geometry # ToWgs84(xv[peak_idx[1][2]], yv[peak_idx[1][1]])

\* C10: whenever an exception has been raised at some stage of
\* compute_candidates, the call does not raise to its caller and what it
\* returns is the FeatureCollection with no features.
C10_AnyFailureReturnsEmpty ==
    /\ kpc # "raised"
    /\ (kpc = "done" /\ failures # {}) => features = <<>>

\* C11: every value compute_candidates returns is a FeatureCollection whose
\* features is a list of features, and the list is empty when no category
\* has yielded a point, when fewer than 3 fetched points lie inside the area,
\* when the grid has no column or no row, or when no cell of the grid is a
\* peak.
C11_EmptyDataEmptyResult ==
    kpc = "done" =>
        LET inside == SelectSeq(Concat(poi_frames), LAMBDA p : WithinArea(p, area))
            noGrid == /\ grid_size # 0
                      /\ \/ Arange(area.minx, area.maxx, grid_size) = <<>>
                         \/ Arange(area.miny, area.maxy, grid_size) = <<>>
            noPeak == Z # <<>> /\ Where(LocalMax(Z), 1, 1) = <<>>
        IN  /\ features \in Seq({features[i] : i \in 1..Len(features)})
            /\ \A i \in 1..Len(features) :
                  DOMAIN features[i] = {"final", "competitors", "geometry"}
            /\ (poi_frames = <<>> \/ Len(inside) < 3 \/ noGrid \/ noPeak)
                  => features = <<>>

\* C11 witness: the call has returned the empty collection with frames
\* fetched and exactly two of their points inside the area.
C11_Witness ==
    /\ kpc = "done"
    /\ poi_frames # <<>>
    /\ Len(pois) = 2
    /\ features = <<>>

\* C12: the candidate list shown in the table (and offered as CSV) and
\* drawn on the map by a page run was computed in that run, for the area
\* selected in that run.
C12_ShownListIsOfThisRun ==
    (table.shown \/ map_candidates # <<>>) => (pressed /\ stored_place = area_query)

\* C13: the stored candidate list changes only in a page run in which the
\* button was pressed; a map click, a slider move, a category change and a
\* state or district change leave it as it is, and a map click changes
\* nothing but the query.
C13_StoredOnlyOnButton ==
    [][/\ event' # "button" => candidates_geojson' = candidates_geojson
       /\ (event' = "click" /\ query' # query) =>
             <<selected_state, district_choice, sliders, chosen, table, map_candidates,
               area_query>>' =
             <<selected_state, district_choice, sliders, chosen, table, map_candidates,
               area_query>>]_vars

\* C13 witness: a non-empty list is stored, and the latest page run was
\* caused by a change of the state that did not touch it.
C13_Witness ==
    /\ event = "state"
    /\ candidates_geojson.present
    /\ candidates_geojson.features # <<>>
    /\ stored_place # area_query

\* C14: for every setting of the four sliders the weights used in the score
\* are non-negative and sum to 1, are in the ratios of the slider values,
\* and are 0.25 each when all four sliders are 0; the sum divided by is
\* never 0.
C14_WeightsNormalised ==
    apc = "score" =>
        /\ weights.den > 0
        /\ \A i \in 1..4 : weights.num[i] >= 0
        /\ weights.num[1] + weights.num[2] + weights.num[3] + weights.num[4] = weights.den
        /\ \A i, j \in 1..4 :
              w_sliders # <<0, 0, 0, 0>> =>
                 weights.num[i] * w_sliders[j] = weights.num[j] * w_sliders[i]
        /\ w_sliders = <<0, 0, 0, 0>> => \A i \in 1..4 : 4 * weights.num[i] = weights.den

\* C14 witness: the weights of the setting with all four sliders at 0.
C14_Witness ==
    /\ apc = "score"
    /\ w_sliders = <<0, 0, 0, 0>>
    /\ weights.num = <<25, 25, 25, 25>>

\* C15: an uploaded candidate CSV that has the columns lon and lat is taken
\* as the candidate set and is carried through to the table and the map
\* without error: the run does not end in an exception and the scored
\* frame has every column the table selects.
C15_LonLatCsvCarriedThrough ==
    (cand_upload.kind = "frame" /\ {"lon", "lat"} \subseteq cand_upload.frame.columns) =>
        /\ apc # "raised"
        /\ apc \in {"table", "map", "done"} => TableColumns \subseteq df.columns

\* C16: the table and the map show the same rows, the first
\* min(top_n, number of candidates) of the scored frame, in non-increasing
\* order of score, and no candidate left out has a higher score than one
\* shown.
C16_TopNByScore ==
    apc = "done" =>
        LET n == Len(df.rows)
            k == IF app_top_n < n THEN app_top_n ELSE n
        IN  /\ n = Len(indicators.rows)
            /\ Len(shown_table) = k
            /\ Len(shown_map) = k
            /\ \A i \in 1..k :
                  /\ shown_table[i].id = shown_map[i].id
                  /\ shown_table[i].score = shown_map[i].score
                  /\ shown_map[i].location = <<df.rows[i].geometry[2], df.rows[i].geometry[1]>>
            /\ \A i \in 1..(k - 1) : shown_table[i].score >= shown_table[i + 1].score
            /\ \A i \in 1..k : \A j \in (k + 1)..n : df.rows[j].score <= shown_table[i].score
            /\ \A r \in {indicators.rows[i] : i \in 1..n} :
                  Cardinality({i \in 1..n : indicators.rows[i].id = r.id})
                    = Cardinality({i \in 1..n : df.rows[i].id = r.id})

\* C16 witness: more candidates than top_n, two rows shown with different
\* scores, and a row left out that scores lower than the last one shown.
C16_Witness ==
    /\ apc = "done"
    /\ app_top_n = 2
    /\ Len(df.rows) > 2
    /\ shown_table[1].score > shown_table[2].score
    /\ shown_table[2].score > df.rows[3].score

\* C17: when the candidates have been chosen the study area is the
\* uploaded file if it loaded, else the bounding box typed if the box is
\* ticked and the text parses, else the demo box, and the candidates are
\* the uploaded points if the CSV read and has lon and lat, else the grid
\* generated over the study area; neither is ever missing.
C17_AreaAndCandidatesDefined ==
    apc \notin {"start", "candidates", "idle"} =>
        /\ study_area # NoArea
        /\ app_candidates # NoFrame
        /\ "geometry" \in app_candidates.columns
        /\ uploaded_shp.kind = "loads" => study_area = uploaded_shp.area
        /\ (uploaded_shp.kind # "loads" /\ use_bbox /\ bbox_input = "0,0,360,360") =>
              study_area = Box("bbox", 0, 0, 360, 360)
        /\ (uploaded_shp.kind # "loads" /\ (~use_bbox \/ bbox_input = "0,0,360")) =>
              study_area = Box("demo", 0, 0, 180, 360)
        /\ (cand_upload.kind = "frame" /\ {"lon", "lat"} \subseteq cand_upload.frame.columns) =>
              app_candidates.rows = cand_upload.frame.rows
        /\ (cand_upload.kind # "frame" \/ ~({"lon", "lat"} \subseteq cand_upload.frame.columns)) =>
              /\ "id" \in app_candidates.columns
              /\ app_candidates.rows # <<>>
              /\ \A i \in 1..Len(app_candidates.rows) :
                    /\ study_area.minx < app_candidates.rows[i].geometry[1]
                    /\ app_candidates.rows[i].geometry[1] < study_area.maxx
                    /\ study_area.miny < app_candidates.rows[i].geometry[2]
                    /\ app_candidates.rows[i].geometry[2] < study_area.maxy

\* C17 witness: a file that loads although a parsable box is typed too, and
\* a CSV without lon and lat replaced by the grid.
C17_Witness ==
    /\ apc = "indicators"
    /\ uploaded_shp.kind = "loads"
    /\ use_bbox
    /\ bbox_input = "0,0,360,360"
    /\ study_area.source = "file"
    /\ cand_upload.kind = "frame"
    /\ "lon" \notin cand_upload.frame.columns
    /\ Len(app_candidates.rows) = 2

\* C18: load_and_smooth_area returns a FeatureCollection in every case: with
\* no features when the geocoding raised; otherwise the geocoded features,
\* each with its geometry smoothed, except that a feature whose smoothing
\* raised is returned as it was geocoded; the query is the area name when
\* the name contains "India" and the name followed by ", India" otherwise.
C18_LoadAndSmoothArea ==
    lpc = "done" =>
        /\ area_result.type = "FeatureCollection"
        /\ Contains(area_name, India) => geocode_q = area_name
        /\ ~Contains(area_name, India) => geocode_q = area_name \o CommaIndia
        /\ 0 \in raised_at => area_result.features = <<>>
        /\ 0 \notin raised_at =>
              /\ Len(area_result.features) = Len(gdf)
              /\ \A i \in 1..Len(gdf) :
                    /\ i \in raised_at => area_result.features[i] = gdf[i]
                    /\ i \notin raised_at =>
                          /\ area_result.features[i].type = "Feature"
                          /\ Shape(area_result.features[i].geometry)
                                = ChaikinResult(Shape(gdf[i].geometry), smooth_iters,
                                                {j \in 1..Len(Shape(gdf[i].geometry).polys) :
                                                    <<i, j>> \in kept_parts})

\* C18 witness: a name without "India", two features geocoded, the
\* smoothing of the first raised and the second is returned smoothed.
C18_Witness ==
    /\ lpc = "done"
    /\ ~Contains(area_name, India)
    /\ raised_at = {1}
    /\ Len(area_result.features) = 2
    /\ area_result.features[1] = gdf[1]
    /\ area_result.features[2] # gdf[2]

\* C19: category handling of compute_candidates.  A missing or empty selection
\* is replaced by the five default categories; the tag list holds exactly the
\* selected names that have a tag mapping, in the order selected; each fetch,
\* whether it answers with points, answers with nothing or raises, moves on to
\* the next tag, and only a non-empty answer is kept; after the last tag the
\* function returns the empty collection exactly when no frame was kept, and
\* otherwise goes on with all the kept frames.
C19_CategoryStep ==
    /\ kpc = "start" =>
          /\ kpc' = "geocode"
          /\ selected_categories'.cats =
                IF selected_categories.cats = <<>> THEN DefaultCategories
                ELSE selected_categories.cats
    /\ kpc = "tags" =>
          /\ kpc' = "fetch"
          /\ \A i \in 1..Len(tag_list') : tag_list'[i] \in CATEGORY_TO_TAGS
          /\ \A c \in CATEGORY_TO_TAGS :
                Cardinality({i \in 1..Len(tag_list') : tag_list'[i] = c})
                  = Cardinality({i \in 1..Len(selected_categories.cats) :
                                   selected_categories.cats[i] = c})
          /\ \A i, j \in 1..Len(tag_list') :
                i < j => \E a, b \in 1..Len(selected_categories.cats) :
                            /\ a < b
                            /\ selected_categories.cats[a] = tag_list'[i]
                            /\ selected_categories.cats[b] = tag_list'[j]
    /\ kpc = "fetch" /\ tag_i <= Len(tag_list) =>
          /\ kpc' = "fetch"
          /\ tag_i' = tag_i + 1
          /\ tag_list' = tag_list
          /\ \/ poi_frames' = poi_frames
             \/ /\ OsmFrame(tag_list[tag_i]) # <<>>
                /\ poi_frames' = Append(poi_frames, OsmFrame(tag_list[tag_i]))
    /\ kpc = "fetch" /\ tag_i > Len(tag_list) =>
          IF poi_frames = <<>>
          THEN kpc' = "done" /\ features' = <<>>
          ELSE kpc' = "filter" /\ pois_all' = Concat(poi_frames) /\ pois_all' # <<>>

C19_CategoryHandling == [][C19_CategoryStep]_vars

\* a selection with an unmapped name, one fetch that raised and one that
\* answered with nothing, and the remaining categories going on to the filter
C19_Witness ==
    /\ kpc = "filter"
    /\ "fetch" \in failures
    /\ Len(tag_list) < Len(selected_categories.cats)
    /\ \E i \in 1..Len(tag_list) : OsmFrame(tag_list[i]) = <<>>
    /\ poi_frames # <<>>
    /\ Len(poi_frames) < Len(tag_list) - 1
    /\ pois_all = Concat(poi_frames)

\* C20: for every non-empty set of peaks each final lies in [0, 1]; both
\* denominators of the normalisation are positive, so nothing is divided by
\* zero; and when all peaks have the same density and the same competitor
\* count, one peak alone included, every final is exactly 0.3.
C20_FinalInUnitInterval ==
    kpc = "scored" =>
      /\ candidates # <<>>
      /\ MaxOf(ScoreSet) - MinOf(ScoreSet) + 1 > 0
      /\ EpsLess(EpsNum(0, 0), EpsNum(MaxOf(CompSet) - MinOf(CompSet), 1))
      /\ \A i \in 1..Len(candidates) :
            LET f == candidates[i].final
            IN  /\ f.num.eps \in 0..(EpsInv - 1)
                /\ f.den.eps \in 0..(EpsInv - 1)
                /\ EpsLess(EpsNum(0, 0), f.den)
                /\ ~EpsLess(f.num, EpsNum(0, 0))
                /\ ~EpsLess(f.den, f.num)
                /\ (Cardinality(ScoreSet) = 1 /\ Cardinality(CompSet) = 1) =>
                      EpsScale(10, f.num) = EpsScale(3, f.den)

\* C20 witness: several scored peaks, all of one density and one competitor
\* count
C20_Witness ==
    /\ kpc = "scored"
    /\ Len(candidates) >= 2
    /\ Cardinality(ScoreSet) = 1
    /\ Cardinality(CompSet) = 1
    /\ \A i \in 1..Len(candidates) :
          EpsScale(10, candidates[i].final.num) = EpsScale(3, candidates[i].final.den)

====
